---- MODULE Spec2Model ----
(***************************************************************************)
(* A model of grinder-webtest's expression evaluator, capture evaluator    *)
(* and test-set runner (src/webtest/runner.py, parser.py, macro.py).       *)
(*                                                                         *)
(* Text is modelled as a sequence of one-character strings, so that the    *)
(* regular expressions of the source are matched character by character.   *)
(***************************************************************************)
EXTENDS Integers, Sequences, FiniteSets, TLC

VARIABLES
    variables,  \* worker -> that instance's self.variables (name -> value)
    pc,         \* worker -> the statement the worker is at
    value,      \* worker -> the working string `value` of eval_expressions
    call,       \* worker -> the eval_expressions call in progress or last made
    last,       \* worker -> the last iteration of the eval_expressions loop
    ret,        \* worker -> the statement eval_expressions returns to
    cap,        \* worker -> the eval_capture call in progress or last made
    run,        \* worker -> the __init__ or __call__ in progress
    defaults,   \* the `variables` argument of get_test_runner
    registry,   \* the class attributes of WebtestRunner
    thread,     \* worker -> the number of the Grinder thread it runs in
    script,     \* the Grinder script: its objects, its get_test_runner calls
    webtest,    \* a parser.Webtest object, its handler and the SAX parser
    correlation \* worker -> the CorrelationRunner made for it

expVars == <<pc, value, call, last>>
confVars == <<defaults, registry, thread, script, webtest, correlation>>
vars == <<variables, pc, value, call, last, ret, cap, run,
          defaults, registry, thread, script, webtest, correlation>>

(***************************************************************************)
(* Characters and character classes of the regular expressions.            *)
(***************************************************************************)
BS == "\\"
NL == "\n"

Upper == {"A", "B", "C", "D", "E", "F", "G", "H", "I", "J", "K", "L", "M",
          "N", "O", "P", "Q", "R", "S", "T", "U", "V", "W", "X", "Y", "Z"}
Lower == {"a", "b", "c", "d", "e", "f", "g", "h", "i", "j", "k", "l", "m",
          "n", "o", "p", "q", "r", "s", "t", "u", "v", "w", "x", "y", "z"}
Digit == {"0", "1", "2", "3", "4", "5", "6", "7", "8", "9"}

\* [_A-Z0-9]: the NAME class of re_var_literal, re_var and re_capture
NameChar == Upper \cup Digit \cup {"_"}
\* [_A-Z0-0-99]: the NAME class of re_var_macro, as written in the source:
\* the range 0-0, a literal "-" and the digit 9
MacroTargetChar == Upper \cup {"_", "0", "-", "9"}
\* [_a-z]: macro names
MacroNameChar == Lower \cup {"_"}

(***************************************************************************)
(* Sequence helpers.                                                       *)
(***************************************************************************)
At(s, i) == IF i >= 1 /\ i <= Len(s) THEN s[i] ELSE "<end>"

\* length of the longest run of characters of the set S, starting at i
RECURSIVE RunIn(_, _, _)
RunIn(s, i, S) ==
    IF i >= 1 /\ i <= Len(s) /\ s[i] \in S THEN 1 + RunIn(s, i + 1, S) ELSE 0

\* length of the longest run of characters other than c, starting at i
RECURSIVE RunNot(_, _, _)
RunNot(s, i, c) ==
    IF i >= 1 /\ i <= Len(s) /\ s[i] # c THEN 1 + RunNot(s, i + 1, c) ELSE 0

RECURSIVE Concat(_)
Concat(ss) == IF ss = <<>> THEN <<>> ELSE Head(ss) \o Concat(Tail(ss))

\* (?:[^c\\]|\\.)* from position i: the position where the run stops.  A
\* backslash takes the next character with it unless that is a line break or
\* the end of the text ("." matches no line break).
RECURSIVE EscRun(_, _, _)
EscRun(s, i, c) ==
    IF i > Len(s) THEN i
    ELSE IF s[i] = BS
         THEN IF i + 1 <= Len(s) /\ s[i + 1] # NL THEN EscRun(s, i + 2, c) ELSE i
         ELSE IF s[i] = c THEN i ELSE EscRun(s, i + 1, c)

\* re_expansion = ((?:[^{\\]|\\.)*){((?:[^}\\]|\\.)*)}(.*)   used with .match
NoExpansion == [matched |-> FALSE, before |-> <<>>, expression |-> <<>>,
                after |-> <<>>]

\* the groups, for the opening brace at o and the closing brace at c
ExpansionGroups(s, o, c) ==
    IF At(s, c) = "}"
    THEN [matched |-> TRUE,
          before |-> SubSeq(s, 1, o - 1),
          expression |-> SubSeq(s, o + 1, c - 1),
          \* (.*) stops at the first line break; what follows it is in no group
          after |-> SubSeq(s, c + 1, c + RunNot(s, c + 1, NL))]
    ELSE NoExpansion

ExpansionFrom(s, o) ==
    IF At(s, o) = "{" THEN ExpansionGroups(s, o, EscRun(s, o + 1, "}"))
    ELSE NoExpansion

re_expansion(s) == ExpansionFrom(s, EscRun(s, 1, "{"))

(***************************************************************************)
(* The four expression forms, matched with .match (anchored at the start   *)
(* of the expression only).                                                *)
(***************************************************************************)
NoForm == [matched |-> FALSE, name |-> <<>>, macro_name |-> <<>>,
           args |-> <<>>, literal |-> <<>>]

\* NAME ?=   for a NAME of n characters: the position after "=", or 0
EqualsAfter(e, n) ==
    IF n = 0 THEN 0
    ELSE IF At(e, n + 1) = "=" THEN n + 2
    ELSE IF At(e, n + 1) = " " /\ At(e, n + 2) = "=" THEN n + 3
    ELSE 0

\* an optional space at position p: the position after it
SkipSpace(e, p) == IF At(e, p) = " " THEN p + 1 ELSE p

\* ([_a-z]+)\(([^)]*)\)   from position p, the name ending before q and the
\* arguments being a characters long
MacroCallGroups(e, p, q, a) ==
    IF q > p /\ At(e, q) = "(" /\ At(e, q + 1 + a) = ")"
    THEN [NoForm EXCEPT !.matched = TRUE,
                        !.macro_name = SubSeq(e, p, q - 1),
                        !.args = SubSeq(e, q + 1, q + a)]
    ELSE NoForm

MacroCallTo(e, p, q) == MacroCallGroups(e, p, q, RunNot(e, q + 1, ")"))

MacroCallAt(e, p) == MacroCallTo(e, p, p + RunIn(e, p, MacroNameChar))

\* ([_A-Z0-0-99]+) ?= ?([_a-z]+)\(([^)]*)\)
VarMacroGroups(e, n, p2) ==
    IF p2 = 0 THEN NoForm
    ELSE [MacroCallAt(e, SkipSpace(e, p2)) EXCEPT !.name = SubSeq(e, 1, n)]

VarMacroNamed(e, n) == VarMacroGroups(e, n, EqualsAfter(e, n))

re_var_macro(e) == VarMacroNamed(e, RunIn(e, 1, MacroTargetChar))

\* ([_A-Z0-9]+) ?= ?([^}]+)
\* the literal starts at st and is k characters long
VarLiteralGroups(e, n, st, k) ==
    IF k >= 1
    THEN [NoForm EXCEPT !.matched = TRUE,
                        !.name = SubSeq(e, 1, n),
                        !.literal = SubSeq(e, st, st + k - 1)]
    ELSE NoForm

\* the optional space after "=" is taken only if a literal follows it
LiteralStart(e, p2) ==
    IF At(e, p2) = " " /\ p2 + 1 <= Len(e) /\ e[p2 + 1] # "}" THEN p2 + 1
    ELSE p2

VarLiteralFrom(e, n, st) == VarLiteralGroups(e, n, st, RunNot(e, st, "}"))

VarLiteralNamed(e, n, p2) ==
    IF p2 = 0 THEN NoForm ELSE VarLiteralFrom(e, n, LiteralStart(e, p2))

VarLiteralOf(e, n) == VarLiteralNamed(e, n, EqualsAfter(e, n))

re_var_literal(e) == VarLiteralOf(e, RunIn(e, 1, NameChar))

\* ([_a-z]+)\(([^)]*)\)
re_macro(e) == MacroCallAt(e, 1)

\* ([_A-Z0-9]+)
VarGroups(e, n) ==
    IF n >= 1 THEN [NoForm EXCEPT !.matched = TRUE, !.name = SubSeq(e, 1, n)]
    ELSE NoForm

re_var(e) == VarGroups(e, RunIn(e, 1, NameChar))

\* the if/elif chain of eval_expressions: which form handles an expression
ClassifyOf(vm, vl, mc, v) ==
    IF vm.matched THEN [rule |-> "var_macro", m |-> vm]
    ELSE IF vl.matched THEN [rule |-> "var_literal", m |-> vl]
    ELSE IF mc.matched THEN [rule |-> "macro", m |-> mc]
    ELSE IF v.matched THEN [rule |-> "var", m |-> v]
    ELSE [rule |-> "invalid", m |-> NoForm]

Classify(e) ==
    ClassifyOf(re_var_macro(e), re_var_literal(e), re_macro(e), re_var(e))

(***************************************************************************)
(* The macro registry (webtest.macro.Macro).  today and timestamp are the  *)
(* registered macros the model's inputs call; a name that is no attribute  *)
(* of the macro object makes invoke raise ValueError.  What a macro        *)
(* returns depends on the clock: it is any of a few values.                *)
(***************************************************************************)
M_today == <<"t", "o", "d", "a", "y">>
M_timestamp == <<"t", "i", "m", "e", "s", "t", "a", "m", "p">>

DateStrings == {<<"0", "7">>, <<"3", "1">>}
Timestamps == {<<"1", "3">>, <<"1", "4">>}

HasPercent(s) == \E i \in 1..Len(s) : s[i] = "%"

\* date.today().strftime(format): text without a directive is kept
today(format) == IF HasPercent(format) THEN DateStrings ELSE {format}

\* str(int(time.time()))
timestamp(ignored) == Timestamps

NoResult == [raised |-> "", result |-> <<>>]

White == {" ", NL, "\t", "\r"}

RECURSIVE RunBack(_, _, _)
RunBack(s, i, S) ==
    IF i >= 1 /\ i <= Len(s) /\ s[i] \in S THEN 1 + RunBack(s, i - 1, S) ELSE 0

\* str.strip(), given the number of leading white characters
StripFrom(s, lead) ==
    IF lead = Len(s) THEN <<>>
    ELSE SubSeq(s, lead + 1, Len(s) - RunBack(s, Len(s), White))

strip(s) == StripFrom(s, RunIn(s, 1, White))

\* the other methods of the Macro object, which getattr finds as well
M_unpack == <<"u", "n", "p", "a", "c", "k">>
M_invoke == <<"i", "n", "v", "o", "k", "e">>
M___init__ == <<"_", "_", "i", "n", "i", "t", "_", "_">>

\* args.split(',')
RECURSIVE split(_, _)
split(args, from) ==
    IF \E i \in from..Len(args) : args[i] = ","
    THEN LET i == CHOOSE i \in from..Len(args) :
                      /\ args[i] = ","
                      /\ \A j \in from..(i - 1) : args[j] # ","
         IN  <<SubSeq(args, from, i - 1)>> \o split(args, i + 1)
    ELSE <<SubSeq(args, from, Len(args))>>

\* [arg.strip() for arg in args.split(',')]
unpack(args) == [i \in 1..Len(split(args, 1)) |-> strip(split(args, 1)[i])]

\* str of a list of texts without quotes and backslashes: ['a', 'b']
RECURSIVE ListItems(_)
ListItems(l) ==
    IF l = <<>> THEN <<>>
    ELSE <<"'">> \o Head(l) \o <<"'">>
         \o (IF Len(l) > 1 THEN <<",", " ">> ELSE <<>>) \o ListItems(Tail(l))

ListStr(l) == <<"[">> \o ListItems(l) \o <<"]">>

\* Macro.invoke: the set of outcomes of one invocation.  getattr finds every
\* attribute of the object: unpack returns a list, invoke and __init__ are
\* called with one argument too many or too few (TypeError)
invoke(macro_name, args) ==
    IF macro_name = M_today
    THEN {[raised |-> "", result |-> r] : r \in today(args)}
    ELSE IF macro_name = M_timestamp
    THEN {[raised |-> "", result |-> r] : r \in timestamp(args)}
    ELSE IF macro_name = M_unpack
    THEN {[raised |-> "", result |-> ListStr(unpack(args))]}
    ELSE IF macro_name \in {M_invoke, M___init__}
    THEN {[raised |-> "TypeError", result |-> <<>>]}
    ELSE {[raised |-> "ValueError", result |-> <<>>]}

(***************************************************************************)
(* One iteration of the loop of eval_expressions.                          *)
(***************************************************************************)
Put(store, name, val) ==
    [k \in DOMAIN store \cup {name} |-> IF k = name THEN val ELSE store[k]]

\* the macro outcomes an expression may see (one dummy outcome when the form
\* handling it calls no macro)
MacroOutcomesOf(c) ==
    IF c.rule \in {"var_macro", "macro"}
    THEN invoke(c.m.macro_name, c.m.args)
    ELSE {NoResult}

MacroOutcomes(e) == MacroOutcomesOf(Classify(e))

Raised(c, store, exc) ==
    [raised |-> exc, store |-> store, value |-> <<>>, expanded |-> <<>>,
     rule |-> c.rule, name |-> c.m.name]

\* value = before + expanded + after
Expanded(x, c, store, expanded) ==
    [raised |-> "", store |-> store,
     value |-> x.before \o expanded \o x.after,
     expanded |-> expanded, rule |-> c.rule, name |-> c.m.name]

\* IterationOf with an undefined variable expanding to nothing
IterationOf_undefinedIsEmpty(x, store, r, c) ==
    CASE c.rule = "var_macro" ->
            IF r.raised # "" THEN Raised(c, store, r.raised)
            ELSE Expanded(x, c, Put(store, c.m.name, r.result), r.result)
      [] c.rule = "var_literal" ->
            Expanded(x, c, Put(store, c.m.name, c.m.literal), c.m.literal)
      [] c.rule = "macro" ->
            IF r.raised # "" THEN Raised(c, store, r.raised)
            ELSE Expanded(x, c, store, r.result)
      [] c.rule = "var" ->
            IF c.m.name \in DOMAIN store
            THEN Expanded(x, c, store, store[c.m.name])
            ELSE Expanded(x, c, store, <<>>)
      [] OTHER -> Raised(c, store, "SyntaxError")

\* the body of `while to_expand:` for the match x of re_expansion on the
\* working string, the store `store`, the macro outcome r and the form c of
\* the expression
IterationOf(x, store, r, c) ==
    CASE c.rule = "var_macro" ->
            IF r.raised # "" THEN Raised(c, store, r.raised)
            ELSE Expanded(x, c, Put(store, c.m.name, r.result), r.result)
      [] c.rule = "var_literal" ->
            Expanded(x, c, Put(store, c.m.name, c.m.literal), c.m.literal)
      [] c.rule = "macro" ->
            IF r.raised # "" THEN Raised(c, store, r.raised)
            ELSE Expanded(x, c, store, r.result)
      [] c.rule = "var" ->
            IF c.m.name \in DOMAIN store
            THEN Expanded(x, c, store, store[c.m.name])
            ELSE Raised(c, store, "NameError")
      [] OTHER -> Raised(c, store, "SyntaxError")

Iteration(x, store, r) == IterationOf(x, store, r, Classify(x.expression))

(***************************************************************************)
(* Request.captures and the regular expressions of eval_capture.           *)
(***************************************************************************)
\* str.splitlines()
RECURSIVE splitlines(_)
RECURSIVE SplitAt(_, _)
SplitAt(s, k) == <<SubSeq(s, 1, k)>> \o splitlines(SubSeq(s, k + 2, Len(s)))

splitlines(s) == IF s = <<>> THEN <<>> ELSE SplitAt(s, RunNot(s, 1, NL))

StripAll(ls) == [i \in 1..Len(ls) |-> strip(ls[i])]
NonBlank(l) == l # <<>>

\* Request.captures(): the stripped lines of the capture block that are not
\* blank
captures(capture) == SelectSeq(StripAll(splitlines(capture)), NonBlank)

NoCapture == [matched |-> FALSE, name |-> <<>>, value |-> <<>>]

\* ^{([_A-Z0-9]+) ?= ?(.+)}$   on a line "{" \o e; the position after "=" is
\* p2, and the optional space after it is taken only if (.+) still has a
\* character to match before the closing brace
CaptureStart(e, p2) ==
    IF p2 = 0 \/ At(e, Len(e)) # "}" THEN 0
    ELSE IF At(e, p2) = " " /\ p2 + 1 <= Len(e) - 1 THEN p2 + 1
    ELSE IF p2 <= Len(e) - 1 THEN p2
    ELSE 0

CaptureGroups(e, n, st) ==
    IF st = 0 THEN NoCapture
    ELSE [matched |-> TRUE, name |-> SubSeq(e, 1, n),
          value |-> SubSeq(e, st, Len(e) - 1)]

CaptureNamed(e, n) == CaptureGroups(e, n, CaptureStart(e, EqualsAfter(e, n)))

CaptureOf(e) == CaptureNamed(e, RunIn(e, 1, NameChar))

re_capture(l) == IF At(l, 1) # "{" THEN NoCapture ELSE CaptureOf(Tail(l))

\* re.search(regexp, body) for the regular expressions the capture lines of
\* the model expand to: literal characters, "." (any character but a line
\* break) and groups ( ) that are not nested.
NotParen(c) == c \notin {"(", ")"}
Elements(p) == SelectSeq(p, NotParen)
ElemMatches(el, ch) == IF el = "." THEN ch # NL ELSE el = ch

MatchesAt(els, body, i) ==
    /\ i + Len(els) - 1 <= Len(body)
    /\ \A k \in 1..Len(els) : ElemMatches(els[k], body[i + k - 1])

\* the leftmost position where the pattern matches, or 0
FirstMatch(els, body) ==
    IF \E i \in 1..(Len(body) + 1) : MatchesAt(els, body, i)
    THEN CHOOSE i \in 1..(Len(body) + 1) :
            /\ MatchesAt(els, body, i)
            /\ \A j \in 1..(i - 1) : ~MatchesAt(els, body, j)
    ELSE 0

HasGroup(p) == \E i \in 1..Len(p) : p[i] = "("

\* match.group(1): the span of the first group, which opens at g1 in the
\* pattern and is n elements long
Group1(body, i, g1, n) == SubSeq(body, i + g1 - 1, i + g1 + n - 2)

NoMatch == [matched |-> FALSE, value |-> <<>>]

\* `if match.groups(): value = match.group(1) else: value = match.group(0)`
SearchAt(p, els, body, i) ==
    IF i = 0 THEN NoMatch
    ELSE IF HasGroup(p)
    THEN [matched |-> TRUE,
          value |-> Group1(body, i, RunNot(p, 1, "(") + 1,
                           RunNot(p, RunNot(p, 1, "(") + 2, ")"))]
    ELSE [matched |-> TRUE, value |-> SubSeq(body, i, i + Len(els) - 1)]

SearchOf(p, els, body) == SearchAt(p, els, body, FirstMatch(els, body))

Search(regexp, body) == SearchOf(regexp, Elements(regexp), body)

(***************************************************************************)
(* Inputs.                                                                 *)
(***************************************************************************)
Workers == {"w1", "w2"}

\* Grinder numbers its threads from 0: the workers in the first two threads
FirstThreads == [w \in Workers |-> IF w = "w1" THEN 0 ELSE 1]

\* how many segments a generated text is made of
MaxSegs == 2

N_A == <<"A">>
N_B == <<"B">>
V_x == <<"x">>
V_v == <<"v">>

T_assign == <<"{", "A", " ", "=", " ", "x", "}">>
T_var == <<"{", "A", "}">>
T_escOpen == <<BS, "{">>
T_escClose == <<BS, "}">>
T_undef == <<"{", "B", "}">>
T_macro == <<"{", "t", "o", "d", "a", "y", "(", "y", ")", "}">>
T_lower == <<"{", "s", "}">>
T_spaced == <<"{", " ", "A", " ", "}">>
T_nested == <<"{", "{", "A", "}", "}">>
T_trailing == <<"{", "A", " ", "x", "}">>
T_twoSpaces == <<"{", "A", " ", " ", "=", " ", "x", "}">>
T_digitMacro ==
    <<"{", "A", "1", " ", "=", " ", "t", "o", "d", "a", "y", "(", "y", ")", "}">>
T_dashMacro ==
    <<"{", "A", "-", "9", " ", "=", " ", "t", "o", "d", "a", "y", "(", "y", ")", "}">>
T_varMacro ==
    <<"{", "B", " ", "=", " ", "t", "i", "m", "e", "s", "t", "a", "m", "p", "(", ")", "}">>
T_noMacro == <<"{", "m", "(", "y", ")", "}">>
T_unpack == <<"{", "u", "n", "p", "a", "c", "k", "(", "a", ",", " ", "b", ")", "}">>
T_invoke == <<"{", "i", "n", "v", "o", "k", "e", "(", "y", ")", "}">>
T_init == <<"{", "_", "_", "i", "n", "i", "t", "_", "_", "(", ")", "}">>

\* text without braces and backslashes
Plain == {<<>>, <<"z">>, <<NL>>}

\* the pieces that generated texts are put together from
Segments ==
    << T_assign, T_var, <<NL>>, T_escOpen, T_escClose, <<"z">>, T_undef,
       T_macro, T_varMacro, T_lower >>

SegTexts(n) ==
    {Concat([i \in 1..n |-> Segments[f[i]]]) : f \in [1..n -> 1..Len(Segments)]}

\* further texts: the other malformed blocks, macro assignments to names with
\* digits or a dash, an unregistered macro, texts of several lines and texts
\* with a block between escaped braces
MoreTexts ==
    { T_spaced, T_nested, T_trailing, T_twoSpaces, T_digitMacro, T_dashMacro,
      T_noMacro, T_unpack, T_invoke, T_init,
      T_assign \o <<NL>> \o T_var,
      T_assign \o <<"z">> \o T_var }
    \cup {T_escOpen \o a \o T_var \o b \o T_escClose : a, b \in Plain}

Texts == UNION {SegTexts(n) : n \in 0..MaxSegs} \cup MoreTexts

\* the `variables` argument of get_test_runner
DefaultStores ==
    { <<>>,
      [k \in {N_A} |-> V_v],
      [k \in {N_A} |-> T_var],
      [k \in {N_A, N_B} |-> IF k = N_A THEN T_undef ELSE V_x] }

NoCall == [text |-> <<>>, store |-> <<>>, status |-> "none", result |-> <<>>]
NoIter == [expression |-> <<>>, rule |-> "none", name |-> <<>>,
           raised |-> "", expanded |-> <<>>, store |-> <<>>, value |-> <<>>]

\* eval_capture returns None
None == <<>>

NoSent == [method |-> "", url |-> <<>>, data |-> <<>>, headers |-> <<>>]
NoResponse == [body |-> <<>>, status |-> 0]

NoRun == [status |-> "none", in_init |-> FALSE, queue |-> <<>>,
          filenames |-> <<>>, f |-> 0, r |-> 0, got |-> <<>>,
          sent |-> NoSent, response |-> NoResponse, success |-> TRUE,
          \* what the invocation has done so far: its random draw, the
          \* TestSets begun, the requests sent, a CaptureFailed caught
          draw |-> <<>>, ran |-> <<>>, calls |-> <<>>, caught |-> FALSE,
          \* __del__ has been called on the worker
          deleted |-> FALSE]

\* a Python value, as far as set_class_attributes looks at it: its type, its
\* truth value and, for a TestSet, its filenames and its weight
Value(type, truth) ==
    [type |-> type, truth |-> truth, filenames |-> <<>>, weight |-> <<0, 1>>]

\* None, as the value of before_set and after_set
NoSet == Value("NoneType", FALSE)

\* the class attributes after get_test_runner([])
NoRegistry == [test_sets |-> <<>>, before_set |-> NoSet, after_set |-> NoSet,
               sequence |-> "sequential", think_time |-> 500,
               verbosity |-> "quiet", macro_class |-> "Macro",
               webtest_requests |-> <<>>, test_number |-> 1000]

\* a script that has not called get_test_runner
NoArgs == [test_sets |-> [type |-> "list", items |-> <<>>], before_set |-> 0,
           after_set |-> 0, sequence |-> "sequential", verbosity |-> "quiet",
           macro_class |-> "Macro"]
NoScript == [objects |-> <<>>, configured |-> <<>>, args |-> NoArgs,
             outcome |-> "none", parsed |-> <<>>, builds |-> 0]

\* WebtestHandler(): no current request, no requests, in no element
NoHandler == [request |-> None, requests |-> <<>>, in_element |-> "",
              error |-> ""]

NoEvent == [kind |-> "", name |-> "", attrs |-> {}, data |-> <<>>]

\* Webtest(): no filename, no requests, nothing parsed
NoWebtest == [filename |-> <<>>, requests |-> <<>>, handler |-> NoHandler,
              status |-> "new", open |-> <<>>, n |-> 0, event |-> NoEvent,
              elements |-> <<>>, before |-> 0, parses |-> 0]

\* no CorrelationRunner yet: the object has no attribute webtest_responses
NoCorrelation == [status |-> "unborn", has_responses |-> FALSE,
                  webtest_responses |-> <<>>, queue |-> <<>>, f |-> 1,
                  r |-> 1, in_init |-> FALSE, raised |-> "", calls |-> 0,
                  report |-> <<>>]

NoCorrelations == [w \in Workers |-> NoCorrelation]

NoCap == [capture |-> <<>>, body |-> <<>>, lines |-> <<>>, k |-> 0,
          name |-> <<>>, store |-> <<>>, lineStore |-> <<>>,
          status |-> "none", result |-> None, nset |-> 0, ret |-> "done"]

(***************************************************************************)
(* Calls and exceptions.                                                   *)
(***************************************************************************)
\* self.eval_expressions(text) is called, to return to the statement `to`
Enter(w, text, to) ==
    /\ value' = [value EXCEPT ![w] = text]
    /\ call' = [call EXCEPT ![w] = [text |-> text, store |-> variables[w],
                                    status |-> "running", result |-> <<>>]]
    /\ last' = [last EXCEPT ![w] = NoIter]
    /\ ret' = [ret EXCEPT ![w] = to]
    /\ pc' = [pc EXCEPT ![w] = "expand"]

\* run_test_set without its except clause: CaptureFailed goes on like any
\* other exception
Handler_uncaught(r, exc) ==
    IF r.status # "running" THEN "done"
    ELSE IF r.in_init THEN "dead"
    ELSE "done"

\* where the exception exc raised under the run r is handled: run_test_set
\* catches CaptureFailed and returns, any other exception leaves __init__
\* (the worker is not created) or __call__
Handler(r, exc) ==
    IF r.status # "running" THEN "done"
    ELSE IF exc = "CaptureFailed" THEN "run_test_set"
    ELSE IF r.in_init THEN "dead"
    ELSE "done"

\* `except CaptureFailed: grinder.statistics.forLastTest.success = False`
RunRaised(r, exc) ==
    IF r.status # "running" THEN r
    ELSE IF exc = "CaptureFailed"
    THEN [r EXCEPT !.success = FALSE, !.caught = TRUE]
    ELSE [r EXCEPT !.status = exc]

\* the exception exc leaves the calls in progress
Raise(w, exc) ==
    /\ pc' = [pc EXCEPT ![w] = Handler(run[w], exc)]
    /\ cap' = [cap EXCEPT ![w].status = IF @ = "running" THEN exc ELSE @]
    /\ run' = [run EXCEPT ![w] = RunRaised(@, exc)]

(***************************************************************************)
(* eval_expressions, one worker calling it again and again.                *)
(***************************************************************************)
InitExpand ==
    /\ \E d \in DefaultStores :
          variables = [w \in Workers |-> d] /\ defaults = d
    /\ registry = NoRegistry
    /\ thread = FirstThreads
    /\ script = NoScript
    /\ webtest = NoWebtest
    /\ correlation = NoCorrelations
    /\ run = [w \in Workers |-> NoRun]
    /\ pc = [w \in Workers |-> IF w = "w1" THEN "idle" ELSE "unborn"]
    /\ value = [w \in Workers |-> <<>>]
    /\ call = [w \in Workers |-> NoCall]
    /\ last = [w \in Workers |-> NoIter]
    /\ ret = [w \in Workers |-> "done"]
    /\ cap = [w \in Workers |-> NoCap]

\* a call of eval_expressions(text), for any text
eval_expressions_call(w) ==
    /\ pc[w] = "idle"
    /\ \E text \in Texts : Enter(w, text, "done")
    /\ UNCHANGED <<variables, cap, run>>
    /\ UNCHANGED confVars

\* IterationEffect with one dictionary of variables shared by all workers
IterationEffect_sharedStore(w, x, it) ==
    /\ variables' = [o \in Workers |-> it.store]
    /\ last' = [last EXCEPT ![w] =
                  [expression |-> x.expression, rule |-> it.rule,
                   name |-> it.name, raised |-> it.raised,
                   expanded |-> it.expanded, store |-> variables[w],
                   value |-> value[w]]]
    /\ IF it.raised # ""
       THEN /\ Raise(w, it.raised)
            /\ call' = [call EXCEPT ![w].status = it.raised]
            /\ UNCHANGED <<value, ret>>
       ELSE /\ value' = [value EXCEPT ![w] = it.value]
            /\ UNCHANGED <<pc, call, ret, cap, run>>

\* the effect of one pass `it` on the worker
IterationEffect(w, x, it) ==
    /\ variables' = [variables EXCEPT ![w] = it.store]
    /\ last' = [last EXCEPT ![w] =
                  [expression |-> x.expression, rule |-> it.rule,
                   name |-> it.name, raised |-> it.raised,
                   expanded |-> it.expanded, store |-> variables[w],
                   value |-> value[w]]]
    /\ IF it.raised # ""
       THEN /\ Raise(w, it.raised)
            /\ call' = [call EXCEPT ![w].status = it.raised]
            /\ UNCHANGED <<value, ret>>
       ELSE /\ value' = [value EXCEPT ![w] = it.value]
            /\ UNCHANGED <<pc, call, ret, cap, run>>

IterationStep(w, x) ==
    \E r \in MacroOutcomes(x.expression) :
        IterationEffect(w, x, Iteration(x, variables[w], r))

\* one pass of `while to_expand:`, which ends in the next match or raises
eval_expressions_iter(w) ==
    /\ pc[w] = "expand"
    /\ re_expansion(value[w]).matched
    /\ IterationStep(w, re_expansion(value[w]))
    /\ UNCHANGED confVars

\* `return value`, once re_expansion matches no more
eval_expressions_return(w) ==
    /\ pc[w] = "expand"
    /\ ~re_expansion(value[w]).matched
    /\ pc' = [pc EXCEPT ![w] = ret[w]]
    /\ call' = [call EXCEPT ![w].status = "returned", ![w].result = value[w]]
    /\ UNCHANGED <<variables, value, last, ret, cap, run>>
    /\ UNCHANGED confVars

\* the caller has the result, or the exception, of the call: the worker can
\* be called again
resume(w) ==
    /\ pc[w] = "done"
    /\ pc' = [pc EXCEPT ![w] = "idle"]
    /\ value' = [value EXCEPT ![w] = <<>>]
    /\ call' = [call EXCEPT ![w] = NoCall]
    /\ last' = [last EXCEPT ![w] = NoIter]
    /\ ret' = [ret EXCEPT ![w] = "done"]
    /\ cap' = [cap EXCEPT ![w] = NoCap]
    /\ run' = [run EXCEPT ![w] = [NoRun EXCEPT !.deleted = run[w].deleted]]
    /\ UNCHANGED variables
    /\ UNCHANGED confVars

NextExpand ==
    \E w \in Workers :
        \/ eval_expressions_call(w)
        \/ eval_expressions_iter(w)
        \/ eval_expressions_return(w)
        \/ resume(w)

SpecExpand == InitExpand /\ [][NextExpand]_vars

(***************************************************************************)
(* eval_capture, one worker calling it again and again.                    *)
(***************************************************************************)
MaxLines == 2

N_C == <<"C">>
N_D == <<"D">>
N_E == <<"E">>
N_F == <<"F">>
N_G == <<"G">>
N_X == <<"X">>
V_31 == <<"3", "1">>

CL_group ==
    <<"{", "C", " ", "=", " ", "<", "S", ">", "(", ".", ".", ")", "<", "/",
      "S", ">", "}">>
CL_whole ==
    <<"{", "E", " ", "=", " ", "<", "S", ">", ".", ".", "<", "/", "S", ">",
      "}">>
CL_ref == <<"{", "D", " ", "=", " ", "<", "{", "C", "}", ">", "}">>
CL_assign ==
    <<"{", "F", " ", "=", " ", "{", "X", " ", "=", " ", "3", "}", "(", "1",
      ")", "}">>
CL_nomatch == <<"{", "G", " ", "=", " ", "(", "q", ")", "}">>
CL_bad == <<"C", " ", "=", " ", "x">>

B_element == <<"<", "S", ">", "3", "1", "<", "/", "S", ">">>
B_sid == B_element \o <<"<", "3", "1", ">">>
B_other == <<"<", "N", ">", "3", "1", "<", "/", "N", ">">>

CaptureLines == <<CL_group, CL_whole, CL_ref, CL_assign, CL_nomatch, CL_bad>>

\* the text of a Capture element: one indented line for each expression
RECURSIVE Block(_)
Block(ls) ==
    IF ls = <<>> THEN <<>>
    ELSE <<" ">> \o Head(ls) \o <<NL>> \o Block(Tail(ls))

LineSeqs(n) ==
    {[i \in 1..n |-> CaptureLines[f[i]]] : f \in [1..n -> 1..Len(CaptureLines)]}

CaptureBlocks ==
    {Block(ls) : ls \in UNION {LineSeqs(n) : n \in 0..MaxLines}}
    \cup {<<" ", NL, " ">>}

\* the texts of the responses
Bodies == {B_sid, B_other}

CaptureStores == {<<>>, [k \in {N_C} |-> V_x]}

InitCapture ==
    /\ \E d \in CaptureStores :
          variables = [w \in Workers |-> d] /\ defaults = d
    /\ registry = NoRegistry
    /\ thread = FirstThreads
    /\ script = NoScript
    /\ webtest = NoWebtest
    /\ correlation = NoCorrelations
    /\ run = [w \in Workers |-> NoRun]
    /\ pc = [w \in Workers |-> IF w = "w1" THEN "idle" ELSE "unborn"]
    /\ value = [w \in Workers |-> <<>>]
    /\ call = [w \in Workers |-> NoCall]
    /\ last = [w \in Workers |-> NoIter]
    /\ ret = [w \in Workers |-> "done"]
    /\ cap = [w \in Workers |-> NoCap]

\* eval_capture(request, response) is called, to return to the statement
\* `to`; `if request.capture.strip() == '': return`
CaptureBegin(w, capture, body, to) ==
    /\ cap' = [cap EXCEPT ![w] =
                 [NoCap EXCEPT !.capture = capture, !.body = body,
                               !.lines = captures(capture), !.k = 1,
                               !.store = variables[w],
                               !.lineStore = variables[w],
                               !.status = IF strip(capture) = <<>>
                                          THEN "returned" ELSE "running",
                               !.ret = to]]
    /\ pc' = [pc EXCEPT ![w] = IF strip(capture) = <<>>
                               THEN to ELSE "capture_line"]

eval_capture_call(w) ==
    /\ pc[w] = "idle"
    /\ \E capture \in CaptureBlocks : \E body \in Bodies :
          CaptureBegin(w, capture, body, "done")
    /\ UNCHANGED <<variables, value, call, last, ret, run>>
    /\ UNCHANGED confVars

\* the next expression of `for expression in request.captures()` does not
\* match re_capture
eval_capture_syntax_error(w) ==
    /\ pc[w] = "capture_line"
    /\ cap[w].k <= Len(cap[w].lines)
    /\ ~re_capture(cap[w].lines[cap[w].k]).matched
    /\ Raise(w, "SyntaxError")
    /\ UNCHANGED <<variables, value, call, last, ret>>
    /\ UNCHANGED confVars

\* `regexp = self.eval_expressions(value)` for the groups m of re_capture
CaptureExpand(w, m) ==
    /\ m.matched
    /\ cap' = [cap EXCEPT ![w].name = m.name, ![w].lineStore = variables[w]]
    /\ Enter(w, m.value, "capture_search")

eval_capture_expand(w) ==
    /\ pc[w] = "capture_line"
    /\ cap[w].k <= Len(cap[w].lines)
    /\ CaptureExpand(w, re_capture(cap[w].lines[cap[w].k]))
    /\ UNCHANGED <<variables, run>>
    /\ UNCHANGED confVars

\* CaptureSet going on to the next line when the pattern finds no match
CaptureSet_skipping(w, m) ==
    /\ variables' = [variables EXCEPT ![w] =
                        IF m.matched THEN Put(@, cap[w].name, m.value) ELSE @]
    /\ cap' = [cap EXCEPT ![w].k = @ + 1,
                          ![w].nset = IF m.matched THEN @ + 1 ELSE @]
    /\ pc' = [pc EXCEPT ![w] = "capture_line"]
    /\ UNCHANGED run

\* the outcome m of re.search(regexp, body): CaptureFailed, or the variable
\* is set and the loop goes on
CaptureSet(w, m) ==
    IF m.matched
    THEN /\ variables' = [variables EXCEPT ![w] = Put(@, cap[w].name, m.value)]
         /\ cap' = [cap EXCEPT ![w].k = @ + 1, ![w].nset = @ + 1]
         /\ pc' = [pc EXCEPT ![w] = "capture_line"]
         /\ UNCHANGED run
    ELSE /\ Raise(w, "CaptureFailed")
         /\ UNCHANGED variables

eval_capture_search(w) ==
    /\ pc[w] = "capture_search"
    /\ CaptureSet(w, Search(call[w].result, cap[w].body))
    /\ UNCHANGED <<value, call, last, ret>>
    /\ UNCHANGED confVars

\* the end of the loop: the function ends without a return statement
eval_capture_return(w) ==
    /\ pc[w] = "capture_line"
    /\ cap[w].k > Len(cap[w].lines)
    /\ cap' = [cap EXCEPT ![w].status = "returned", ![w].result = None]
    /\ pc' = [pc EXCEPT ![w] = cap[w].ret]
    /\ UNCHANGED <<variables, value, call, last, ret, run>>
    /\ UNCHANGED confVars

NextCapture ==
    \E w \in Workers :
        \/ eval_capture_call(w)
        \/ eval_capture_syntax_error(w)
        \/ eval_capture_expand(w)
        \/ eval_expressions_iter(w)
        \/ eval_expressions_return(w)
        \/ eval_capture_search(w)
        \/ eval_capture_return(w)
        \/ resume(w)

SpecCapture == InitCapture /\ [][NextCapture]_vars

(***************************************************************************)
(* The registry: TestSets, the requests of the .webtest files and the      *)
(* sequencing mode, as set_class_attributes leaves them.                   *)
(***************************************************************************)
N_U == <<"U">>

U_assign == <<"/", "{", "U", " ", "=", " ", "x", "}">>
U_var == <<"/", "{", "U", "}">>
U_cap == <<"/", "{", "C", "}">>
P_var == <<"{", "U", "}">>
P_cap == <<"<", "{", "C", "}", ">">>

\* a Request, as the parser builds it
Request(method, url, parameters, body, capture) ==
    [method |-> method, url |-> url, headers |-> << <<"h", P_var>> >>,
     parameters |-> parameters, body |-> body, capture |-> capture]

\* parser.Webtest(filename).requests, for the files of the model
Documents ==
    [filename \in {"login", "item", "other", "bad", "put", "post",
                    "form"} |->
        CASE filename = "login" ->
                << Request("POST", U_assign, <<>>, <<>>, Block(<<CL_group>>)),
                   Request("GET", U_var, <<>>, <<>>, <<>>) >>
          [] filename = "item" ->
                << Request("POST", U_cap, << <<"p", P_var>> >>, P_cap, <<>>) >>
          [] filename = "other" ->
                << Request("GET", U_var, << <<"p", P_cap>> >>, <<>>, <<>>) >>
          [] filename = "bad" ->
                << Request("GET", <<"/">>, <<>>, <<>>, Block(<<CL_bad>>)) >>
          [] filename = "post" ->
                << Request("POST", <<"/">>, << <<"p", T_assign>> >>, V_v,
                           <<>>) >>
          [] filename = "form" ->
                << Request("GET", <<"/">>, <<>>, <<>>, <<>>),
                   Request("POST", <<"/">>,
                           << <<"S", V_v>>, <<"N", V_v>>, <<"U", V_v>>,
                              <<"3", <<>> >> >>, <<>>, <<>>),
                   Request("POST", <<"/">>,
                           << <<"N", V_v>>, <<"S", V_v>>, <<"U", V_v>> >>,
                           <<>>, <<>>) >>
          [] OTHER ->
                << Request("GET", <<"/">>, <<>>, <<>>, <<>>),
                   Request("PUT", <<"/">>, <<>>, <<>>, <<>>),
                   Request("GET", <<"/">>, <<>>, <<>>, <<>>) >>]

\* TestSet(*filenames, weight=...), the weight being a fraction
TestSet(filenames, weight) ==
    [type |-> "TestSet", truth |-> TRUE, filenames |-> filenames,
     weight |-> weight]

G_session == <<"login", "item">>
G_other == <<"other">>
G_put == <<"put">>
G_bad == <<"bad">>
G_form == <<"login", "form">>

\* _add_webtest_file for each of the filenames, in order
RECURSIVE AddFiles(_, _)
AddFiles(reg, filenames) ==
    IF filenames = <<>> THEN reg
    ELSE AddFiles(
            [reg EXCEPT
                !.webtest_requests =
                    [f \in DOMAIN @ \cup {Head(filenames)} |->
                        IF f = Head(filenames) THEN Documents[f] ELSE @[f]],
                !.test_number = @ + 1000],
            Tail(filenames))

\* the filenames of the TestSets of a list, one TestSet after the other
RECURSIVE Filenames(_)
Filenames(sets) ==
    IF sets = <<>> THEN <<>>
    ELSE Head(sets).filenames \o Filenames(Tail(sets))

\* the files set_class_attributes adds: those of the TestSets, then those of
\* a before_set, then those of an after_set
FilesToAdd(test_sets, before_set, after_set) ==
    Filenames(test_sets)
        \o (IF before_set.truth THEN before_set.filenames ELSE <<>>)
        \o (IF after_set.truth THEN after_set.filenames ELSE <<>>)

\* the class attributes after get_test_runner(test_sets, before_set=...,
\* sequence=...); a weighted registry is given with its normalized weights
Registry(test_sets, before_set, sequence) ==
    AddFiles([NoRegistry EXCEPT !.test_sets = test_sets,
                                !.before_set = before_set,
                                !.sequence = sequence],
             FilesToAdd(test_sets, before_set, NoSet))

Registries ==
    { Registry(<<TestSet(G_session, <<1, 1>>), TestSet(G_other, <<1, 1>>)>>,
               NoSet, sequence) : sequence \in {"sequential", "random",
                                                "thread"} }
    \cup
    { Registry(<<TestSet(G_session, <<1, 4>>), TestSet(G_other, <<3, 4>>)>>,
               NoSet, "weighted"),
      Registry(<<TestSet(G_other, <<1, 1>>), TestSet(G_put, <<1, 1>>),
                 TestSet(G_bad, <<1, 1>>)>>,
               TestSet(<<"login">>, <<1, 1>>), "random") }

RunnerStores == {<<>>, [k \in {N_U} |-> V_v]}

\* what the HTTP server may answer
Responses ==
    { [body |-> B_sid, status |-> 200], [body |-> B_other, status |-> 200],
      [body |-> B_sid, status |-> 404] }

\* grinder.getThreadNumber()
ThreadNumber(w) == thread[w]

\* random.random(), as a fraction
Picks == {<<1, 8>>, <<1, 4>>, <<7, 8>>}

Add(a, b) == <<a[1] * b[2] + b[1] * a[2], a[2] * b[2]>>
Leq(a, b) == a[1] * b[2] <= b[1] * a[2]
Less(a, b) == a[1] * b[2] < b[1] * a[2]

\* the intervals are open on the right: a pick on a boundary goes on
RECURSIVE WeightedFrom_openRight(_, _, _, _)
WeightedFrom_openRight(sets, i, right, pick) ==
    IF i > Len(sets) THEN sets[Len(sets)]
    ELSE IF Leq(right, pick) /\ Less(pick, Add(right, sets[i].weight))
    THEN sets[i]
    ELSE WeightedFrom_openRight(sets, i + 1, Add(right, sets[i].weight), pick)

\* the loop of the weighted sequence from the i-th TestSet on, `right` being
\* the end of the interval before it; after the loop test_set is the last
RECURSIVE WeightedFrom(_, _, _, _)
WeightedFrom(sets, i, right, pick) ==
    IF i > Len(sets) THEN sets[Len(sets)]
    ELSE IF Leq(right, pick) /\ Leq(pick, Add(right, sets[i].weight))
    THEN sets[i]
    ELSE WeightedFrom(sets, i + 1, Add(right, sets[i].weight), pick)

\* the random draws one __call__ may make: the index random.choice takes,
\* or the pick of the weighted sequence
Draws(sequence, sets) ==
    CASE sequence = "random" -> {<<i>> : i \in 1..Len(sets)}
      [] sequence = "weighted" -> Picks
      [] OTHER -> {<<>>}

\* thread takes the first TestSet whatever the thread number
Queue_threadRunsFirst(w, sequence, sets, draw) ==
    CASE sequence = "random" -> <<sets[draw[1]]>>
      [] sequence = "thread" -> <<sets[1]>>
      [] sequence = "weighted" -> <<WeightedFrom(sets, 1, <<0, 1>>, draw)>>
      [] OTHER -> sets

\* sequential runs only the first TestSet of the list
Queue_sequentialRunsFirst(w, sequence, sets, draw) ==
    CASE sequence = "random" -> <<sets[draw[1]]>>
      [] sequence = "thread" -> <<sets[(ThreadNumber(w) % Len(sets)) + 1]>>
      [] sequence = "weighted" -> <<WeightedFrom(sets, 1, <<0, 1>>, draw)>>
      [] OTHER -> IF sets = <<>> THEN sets ELSE <<sets[1]>>

\* the TestSets one __call__ of worker w runs, in order, for its draw
Queue(w, sequence, sets, draw) ==
    CASE sequence = "random" -> <<sets[draw[1]]>>
      [] sequence = "thread" -> <<sets[(ThreadNumber(w) % Len(sets)) + 1]>>
      [] sequence = "weighted" -> <<WeightedFrom(sets, 1, <<0, 1>>, draw)>>
      [] OTHER -> sets

\* what __call__ raises without any TestSet
CallError(sequence) ==
    CASE sequence = "random" -> "IndexError"
      [] sequence = "thread" -> "ZeroDivisionError"
      [] sequence = "weighted" -> "UnboundLocalError"
      [] OTHER -> ""

(***************************************************************************)
(* Workers: __init__, __call__, run_test_set and execute.                  *)
(***************************************************************************)
Init ==
    /\ defaults \in RunnerStores
    /\ registry \in Registries
    /\ thread = FirstThreads
    /\ script = NoScript
    /\ webtest = NoWebtest
    /\ correlation = NoCorrelations
    /\ variables = [w \in Workers |-> <<>>]
    /\ pc = [w \in Workers |-> "unborn"]
    /\ value = [w \in Workers |-> <<>>]
    /\ call = [w \in Workers |-> NoCall]
    /\ last = [w \in Workers |-> NoIter]
    /\ ret = [w \in Workers |-> "done"]
    /\ cap = [w \in Workers |-> NoCap]
    /\ run = [w \in Workers |-> NoRun]

\* TestRunner(): the worker gets its own copy of the default variables and
\* runs the before_set, if there is one
__init__(w) ==
    /\ pc[w] = "unborn"
    /\ variables' = [variables EXCEPT ![w] = defaults]
    /\ IF registry.before_set.truth
       THEN /\ run' = [run EXCEPT ![w] =
                         [NoRun EXCEPT !.status = "running", !.in_init = TRUE,
                                       !.queue = <<registry.before_set>>]]
            /\ pc' = [pc EXCEPT ![w] = "run_test_set"]
       ELSE /\ pc' = [pc EXCEPT ![w] = "idle"]
            /\ UNCHANGED run
    /\ UNCHANGED <<value, call, last, ret, cap>>
    /\ UNCHANGED confVars

\* __call__ that resets the variables to the defaults
__call___resetting(w) ==
    /\ pc[w] = "idle"
    /\ ~run[w].deleted
    /\ IF registry.test_sets = <<>> /\ registry.sequence # "sequential"
       THEN Raise(w, CallError(registry.sequence))
       ELSE /\ \E draw \in Draws(registry.sequence, registry.test_sets) :
                  run' = [run EXCEPT ![w] =
                            [NoRun EXCEPT
                                !.status = "running", !.draw = draw,
                                !.queue = Queue(w, registry.sequence,
                                                registry.test_sets, draw)]]
            /\ pc' = [pc EXCEPT ![w] = "run_test_set"]
            /\ UNCHANGED cap
    /\ variables' = [variables EXCEPT ![w] = defaults]
    /\ UNCHANGED <<value, call, last, ret>>
    /\ UNCHANGED confVars

\* __call__: the TestSets to run are chosen according to the sequence
__call__(w) ==
    /\ pc[w] = "idle"
    /\ ~run[w].deleted
    /\ IF registry.test_sets = <<>> /\ registry.sequence # "sequential"
       THEN Raise(w, CallError(registry.sequence))
       ELSE /\ \E draw \in Draws(registry.sequence, registry.test_sets) :
                  run' = [run EXCEPT ![w] =
                            [NoRun EXCEPT
                                !.status = "running", !.draw = draw,
                                !.queue = Queue(w, registry.sequence,
                                                registry.test_sets, draw)]]
            /\ pc' = [pc EXCEPT ![w] = "run_test_set"]
            /\ UNCHANGED cap
    /\ UNCHANGED <<variables, value, call, last, ret>>
    /\ UNCHANGED confVars

\* self.run_test_set(test_set) is called for the next TestSet to run
run_test_set(w) ==
    /\ pc[w] = "run_test_set"
    /\ run[w].queue # <<>>
    /\ run' = [run EXCEPT ![w].filenames = Head(run[w].queue).filenames,
                          ![w].queue = Tail(@), ![w].f = 1, ![w].r = 1,
                          ![w].ran = Append(@, Head(run[w].queue).filenames)]
    /\ pc' = [pc EXCEPT ![w] = "request"]
    /\ UNCHANGED <<variables, value, call, last, ret, cap>>
    /\ UNCHANGED confVars

\* __init__ or __call__ returns, after the last run_test_set
invocation_return(w) ==
    /\ pc[w] = "run_test_set"
    /\ run[w].queue = <<>>
    /\ IF run[w].in_init
       THEN /\ pc' = [pc EXCEPT ![w] = "idle"]
            /\ run' = [run EXCEPT ![w] = NoRun]
       ELSE /\ pc' = [pc EXCEPT ![w] = "done"]
            /\ run' = [run EXCEPT ![w].status = "returned"]
    /\ UNCHANGED <<variables, value, call, last, ret, cap>>
    /\ UNCHANGED confVars

\* the requests of the file the run r is at
Requests(r) == registry.webtest_requests[r.filenames[r.f]]

HasRequest(r) == r.f <= Len(r.filenames) /\ r.r <= Len(Requests(r))

\* the loops of run_test_set: the next file, or the end of the TestSet
for_filename(w) ==
    /\ pc[w] = "request"
    /\ ~HasRequest(run[w])
    /\ IF run[w].f > Len(run[w].filenames)
       THEN /\ pc' = [pc EXCEPT ![w] = "run_test_set"]
            /\ UNCHANGED run
       ELSE /\ run' = [run EXCEPT ![w].f = @ + 1, ![w].r = 1]
            /\ UNCHANGED pc
    /\ UNCHANGED <<variables, value, call, last, ret, cap>>
    /\ UNCHANGED confVars

\* self.execute(test, wrapper, request):
\* `url = self.eval_expressions(request.url)`
execute(w) ==
    /\ pc[w] = "request"
    /\ HasRequest(run[w])
    /\ run' = [run EXCEPT ![w].got = <<>>]
    /\ Enter(w, Requests(run[w])[run[w].r].url, "execute_value")
    /\ UNCHANGED <<variables, cap>>
    /\ UNCHANGED confVars

\* the url or a parameter value has been expanded: got is the url followed
\* by the values so far, and the parameter after them is expanded, if any
ExecuteValue(w, request, got) ==
    /\ run' = [run EXCEPT ![w].got = got]
    /\ IF Len(got) <= Len(request.parameters)
       THEN Enter(w, request.parameters[Len(got)][2], "execute_value")
       ELSE /\ pc' = [pc EXCEPT ![w] = "execute_send"]
            /\ UNCHANGED <<value, call, last, ret>>

execute_value(w) ==
    /\ pc[w] = "execute_value"
    /\ ExecuteValue(w, Requests(run[w])[run[w].r],
                    Append(run[w].got, call[w].result))
    /\ UNCHANGED <<variables, cap>>
    /\ UNCHANGED confVars

\* the NVPairs of the parameters, with their expanded values
Parameters(request, got) ==
    [i \in 1..Len(request.parameters) |->
        <<request.parameters[i][1], got[i + 1]>>]

\* wrapper.POST or wrapper.GET, answered by any response, and then
\* `if request.capture: self.eval_capture(request, response)`; the
\* statistics of the test start as a success
Send(w, request, method, data) ==
    \E response \in Responses :
        /\ run' = [run EXCEPT ![w].sent =
                                  [method |-> method, url |-> run[w].got[1],
                                   data |-> data,
                                   headers |-> request.headers],
                              ![w].response = response,
                              ![w].success = TRUE,
                              ![w].calls =
                                  Append(@, <<run[w].filenames[run[w].f],
                                              run[w].r>>)]
        /\ IF request.capture # <<>>
           THEN CaptureBegin(w, request.capture, response.body, "executed")
           ELSE /\ pc' = [pc EXCEPT ![w] = "executed"]
                /\ UNCHANGED cap

\* a request of any other method is sent as a GET
ExecuteSend_otherMethodGets(w, request) ==
    IF request.method = "POST" /\ request.body # <<>>
    THEN /\ Enter(w, request.body, "execute_post")
         /\ UNCHANGED <<cap, run>>
    ELSE /\ Send(w, request, IF request.method = "POST" THEN "POST" ELSE "GET",
                 Parameters(request, run[w].got))
         /\ UNCHANGED <<value, call, last, ret>>

\* `if request.method == 'POST': ... elif request.method == 'GET': ...
\* else: raise ValueError`
ExecuteSend(w, request) ==
    IF request.method = "POST" /\ request.body # <<>>
    THEN /\ Enter(w, request.body, "execute_post")
         /\ UNCHANGED <<cap, run>>
    ELSE /\ IF request.method \in {"POST", "GET"}
            THEN Send(w, request, request.method,
                      Parameters(request, run[w].got))
            ELSE Raise(w, "ValueError")
         /\ UNCHANGED <<value, call, last, ret>>

execute_send(w) ==
    /\ pc[w] = "execute_send"
    /\ ExecuteSend(w, Requests(run[w])[run[w].r])
    /\ UNCHANGED variables
    /\ UNCHANGED confVars

\* `response = wrapper.POST(url, body, headers)` with the expanded body
execute_post(w) ==
    /\ pc[w] = "execute_post"
    /\ Send(w, Requests(run[w])[run[w].r], "POST", call[w].result)
    /\ UNCHANGED <<variables, value, call, last, ret>>
    /\ UNCHANGED confVars

\* run_test_set_next ending the TestSet at a response of 400 or above
run_test_set_next_stopping(w) ==
    /\ pc[w] = "executed"
    /\ run' = [run EXCEPT ![w].success =
                              IF run[w].response.status >= 400
                              THEN FALSE ELSE @,
                          ![w].r = @ + 1, ![w].got = <<>>,
                          ![w].response = NoResponse]
    /\ pc' = [pc EXCEPT ![w] = IF run[w].response.status >= 400
                               THEN "run_test_set" ELSE "request"]
    /\ value' = [value EXCEPT ![w] = <<>>]
    /\ call' = [call EXCEPT ![w] = NoCall]
    /\ last' = [last EXCEPT ![w] = NoIter]
    /\ ret' = [ret EXCEPT ![w] = "done"]
    /\ cap' = [cap EXCEPT ![w] = NoCap]
    /\ UNCHANGED variables
    /\ UNCHANGED confVars

\* execute has returned the response: `if response.getStatusCode() >= 400`,
\* the sleep and the next request
run_test_set_next(w) ==
    /\ pc[w] = "executed"
    /\ run' = [run EXCEPT ![w].success =
                              IF run[w].response.status >= 400
                              THEN FALSE ELSE @,
                          ![w].r = @ + 1, ![w].got = <<>>,
                          ![w].response = NoResponse]
    /\ pc' = [pc EXCEPT ![w] = "request"]
    /\ value' = [value EXCEPT ![w] = <<>>]
    /\ call' = [call EXCEPT ![w] = NoCall]
    /\ last' = [last EXCEPT ![w] = NoIter]
    /\ ret' = [ret EXCEPT ![w] = "done"]
    /\ cap' = [cap EXCEPT ![w] = NoCap]
    /\ UNCHANGED variables
    /\ UNCHANGED confVars

Next ==
    \E w \in Workers :
        \/ __init__(w)
        \/ __call__(w)
        \/ run_test_set(w)
        \/ for_filename(w)
        \/ execute(w)
        \/ execute_value(w)
        \/ execute_send(w)
        \/ execute_post(w)
        \/ eval_expressions_iter(w)
        \/ eval_expressions_return(w)
        \/ eval_capture_syntax_error(w)
        \/ eval_capture_expand(w)
        \/ eval_capture_search(w)
        \/ eval_capture_return(w)
        \/ run_test_set_next(w)
        \/ invocation_return(w)
        \/ resume(w)

Spec == Init /\ [][Next]_vars

(***************************************************************************)
(* The life of a worker up to its end: creation, calls and __del__, with   *)
(* an after_set and a POST request that has a body and a parameter.        *)
(***************************************************************************)
G_post == <<"post">>

\* the class attributes after get_test_runner(test_sets, before_set=...,
\* after_set=..., sequence=...)
RegistryWith(test_sets, before_set, after_set, sequence) ==
    AddFiles([NoRegistry EXCEPT !.test_sets = test_sets,
                                !.before_set = before_set,
                                !.after_set = after_set,
                                !.sequence = sequence],
             FilesToAdd(test_sets, before_set, after_set))

LifeRegistries ==
    { RegistryWith(<<TestSet(G_post, <<1, 1>>), TestSet(G_bad, <<1, 1>>)>>,
                   NoSet, TestSet(<<"login">>, <<1, 1>>), "random"),
      RegistryWith(<<TestSet(G_post, <<1, 1>>)>>,
                   TestSet(<<"login">>, <<1, 1>>), NoSet, "sequential"),
      RegistryWith(<<TestSet(G_post, <<1, 4>>), TestSet(G_other, <<3, 4>>)>>,
                   NoSet, NoSet, "weighted"),
      RegistryWith(<<TestSet(G_post, <<1, 1>>), TestSet(G_other, <<1, 1>>)>>,
                   NoSet, TestSet(G_other, <<1, 1>>), "thread") }

InitLife ==
    /\ defaults = <<>>
    /\ registry \in LifeRegistries
    /\ thread = FirstThreads
    /\ script = NoScript
    /\ webtest = NoWebtest
    /\ correlation = NoCorrelations
    /\ variables = [w \in Workers |-> <<>>]
    /\ pc = [w \in Workers |-> "unborn"]
    /\ value = [w \in Workers |-> <<>>]
    /\ call = [w \in Workers |-> NoCall]
    /\ last = [w \in Workers |-> NoIter]
    /\ ret = [w \in Workers |-> "done"]
    /\ cap = [w \in Workers |-> NoCap]
    /\ run = [w \in Workers |-> NoRun]

\* __del__ that forgets the after_set once it has run it
__del___clearing(w) ==
    /\ pc[w] = "idle"
    /\ ~run[w].deleted
    /\ IF registry.after_set.truth
       THEN /\ run' = [run EXCEPT ![w] =
                         [NoRun EXCEPT !.status = "running", !.deleted = TRUE,
                                       !.queue = <<registry.after_set>>]]
            /\ pc' = [pc EXCEPT ![w] = "run_test_set"]
       ELSE /\ run' = [run EXCEPT ![w].deleted = TRUE]
            /\ UNCHANGED pc
    /\ registry' = [registry EXCEPT !.after_set = NoSet]
    /\ UNCHANGED <<variables, value, call, last, ret, cap>>
    /\ UNCHANGED <<defaults, thread, script, webtest, correlation>>

\* __del__: the worker ends, and runs the after_set if there is one
__del__(w) ==
    /\ pc[w] = "idle"
    /\ ~run[w].deleted
    /\ IF registry.after_set.truth
       THEN /\ run' = [run EXCEPT ![w] =
                         [NoRun EXCEPT !.status = "running", !.deleted = TRUE,
                                       !.queue = <<registry.after_set>>]]
            /\ pc' = [pc EXCEPT ![w] = "run_test_set"]
       ELSE /\ run' = [run EXCEPT ![w].deleted = TRUE]
            /\ UNCHANGED pc
    /\ UNCHANGED <<variables, value, call, last, ret, cap>>
    /\ UNCHANGED confVars

NextLife ==
    \E w \in Workers :
        \/ __init__(w)
        \/ __call__(w)
        \/ __del__(w)
        \/ run_test_set(w)
        \/ for_filename(w)
        \/ execute(w)
        \/ execute_value(w)
        \/ execute_send(w)
        \/ execute_post(w)
        \/ eval_expressions_iter(w)
        \/ eval_expressions_return(w)
        \/ eval_capture_syntax_error(w)
        \/ eval_capture_expand(w)
        \/ eval_capture_search(w)
        \/ eval_capture_return(w)
        \/ run_test_set_next(w)
        \/ invocation_return(w)
        \/ resume(w)

SpecLife == InitLife /\ [][NextLife]_vars

(***************************************************************************)
(* Thread sequencing: two workers in consecutive Grinder threads, with     *)
(* one, two or three TestSets.                                             *)
(***************************************************************************)
MaxThread == 4

ThreadSets ==
    <<TestSet(G_session, <<1, 1>>), TestSet(G_bad, <<1, 1>>),
      TestSet(G_put, <<1, 1>>)>>

ThreadRegistries ==
    {Registry(SubSeq(ThreadSets, 1, n), NoSet, "thread") :
        n \in 1..Len(ThreadSets)}

ThreadNumbers ==
    {[w \in Workers |-> IF w = "w1" THEN i ELSE i + 1] : i \in 0..(MaxThread - 1)}

InitThread ==
    /\ defaults = <<>>
    /\ registry \in ThreadRegistries
    /\ thread \in ThreadNumbers
    /\ script = NoScript
    /\ webtest = NoWebtest
    /\ correlation = NoCorrelations
    /\ variables = [w \in Workers |-> <<>>]
    /\ pc = [w \in Workers |-> "unborn"]
    /\ value = [w \in Workers |-> <<>>]
    /\ call = [w \in Workers |-> NoCall]
    /\ last = [w \in Workers |-> NoIter]
    /\ ret = [w \in Workers |-> "done"]
    /\ cap = [w \in Workers |-> NoCap]
    /\ run = [w \in Workers |-> NoRun]

SpecThread == InitThread /\ [][Next]_vars

(***************************************************************************)
(* Building the registry: a script that makes some TestSets and calls      *)
(* get_test_runner a few times, with well-formed and ill-formed arguments. *)
(***************************************************************************)
MaxBuilds == 2

\* the class attributes before the first get_test_runner
ClassAttributes == [NoRegistry EXCEPT !.macro_class = "unset"]

RECURSIVE GCD(_, _)
GCD(a, b) == IF b = 0 THEN a ELSE GCD(b, a % b)

Reduce(a) == <<a[1] \div GCD(a[1], a[2]), a[2] \div GCD(a[1], a[2])>>

\* float(a) / b
Div(a, b) == Reduce(<<a[1] * b[2], a[2] * b[1]>>)

\* the objects of the script: None, two TestSets, a non-empty string and an
\* empty one; w1 and w2 are the weights the TestSets are made with
Objects(w1, w2) ==
    [id \in 0..4 |->
        CASE id = 0 -> NoSet
          [] id = 1 -> TestSet(G_session, <<w1, 1>>)
          [] id = 2 -> TestSet(G_other, <<w2, 1>>)
          [] id = 3 -> Value("str", TRUE)
          [] OTHER -> Value("str", FALSE)]

List(items) == [type |-> "list", items |-> items]

Args(test_sets, before_set, after_set, sequence, verbosity, macro_class) ==
    [test_sets |-> test_sets, before_set |-> before_set,
     after_set |-> after_set, sequence |-> sequence, verbosity |-> verbosity,
     macro_class |-> macro_class]

\* the get_test_runner calls of the script: well-formed ones, and calls with
\* one argument of the wrong shape
GoodCalls ==
    {Args(List(items), before_set, 0, sequence, "quiet", "Macro") :
        items \in {<<>>, <<1>>, <<1, 2>>, <<2, 1>>, <<1, 1>>, <<1, 2, 1>>},
        before_set \in {0, 2},
        sequence \in {"sequential", "weighted"}}

BadCalls ==
    { Args([type |-> "str", items |-> <<>>], 0, 0, "weighted", "quiet", "Macro"),
      Args(List(<<1, 3>>), 0, 0, "weighted", "quiet", "Macro"),
      Args(List(<<1, 2>>), 3, 0, "weighted", "quiet", "Macro"),
      Args(List(<<1, 2>>), 4, 0, "weighted", "quiet", "Macro"),
      Args(List(<<1, 2>>), 0, 3, "weighted", "quiet", "Macro"),
      Args(List(<<1, 2>>), 0, 4, "weighted", "quiet", "Macro"),
      Args(List(<<1, 2>>), 0, 0, "blah", "quiet", "Macro"),
      Args(List(<<1, 2>>), 0, 0, "weighted", "blah", "Macro"),
      Args(List(<<1, 2>>), 0, 0, "weighted", "quiet", "blah") }

Calls == GoodCalls \cup BadCalls

\* the type checks of set_class_attributes
Accepted(args, objects) ==
    /\ args.test_sets.type = "list"
    /\ \A i \in 1..Len(args.test_sets.items) :
          objects[args.test_sets.items[i]].type = "TestSet"
    /\ ~(objects[args.before_set].truth
          /\ objects[args.before_set].type # "TestSet")
    /\ ~(objects[args.after_set].truth
          /\ objects[args.after_set].type # "TestSet")
    /\ args.sequence \in {"sequential", "random", "weighted", "thread"}
    /\ args.verbosity \in {"debug", "info", "quiet", "error"}
    /\ args.macro_class = "Macro"

\* sum([test_set.weight for test_set in cls.test_sets])
RECURSIVE Total(_, _)
Total(objects, items) ==
    IF items = <<>> THEN <<0, 1>>
    ELSE Reduce(Add(objects[Head(items)].weight, Total(objects, Tail(items))))

\* the loop that divides the weight of each TestSet of the list by the total
RECURSIVE Normalized(_, _, _)
Normalized(objects, items, total) ==
    IF items = <<>> THEN objects
    ELSE Normalized([objects EXCEPT ![Head(items)].weight = Div(@, total)],
                    Tail(items), total)

\* the objects after set_class_attributes
ObjectsAfter(args, objects) ==
    IF args.sequence = "weighted"
    THEN Normalized(objects, args.test_sets.items,
                    Total(objects, args.test_sets.items))
    ELSE objects

\* the class attributes after set_class_attributes, the TestSets being the
\* objects as the call leaves them
AttributesAfter(reg, args, after) ==
    AddFiles([reg EXCEPT
                !.test_sets = [i \in 1..Len(args.test_sets.items) |->
                                  after[args.test_sets.items[i]]],
                !.before_set = after[args.before_set],
                !.after_set = after[args.after_set],
                !.sequence = args.sequence,
                !.verbosity = args.verbosity,
                !.macro_class = args.macro_class],
             FilesToAdd([i \in 1..Len(args.test_sets.items) |->
                            after[args.test_sets.items[i]]],
                        after[args.before_set], after[args.after_set]))

InitRegistry ==
    /\ defaults = <<>>
    /\ registry = ClassAttributes
    /\ thread = FirstThreads
    /\ \E w1, w2 \in 1..3 :
          script = [NoScript EXCEPT !.objects = Objects(w1, w2),
                                    !.configured = Objects(w1, w2)]
    /\ webtest = NoWebtest
    /\ correlation = NoCorrelations
    /\ variables = [w \in Workers |-> <<>>]
    /\ pc = [w \in Workers |-> "unborn"]
    /\ value = [w \in Workers |-> <<>>]
    /\ call = [w \in Workers |-> NoCall]
    /\ last = [w \in Workers |-> NoIter]
    /\ ret = [w \in Workers |-> "done"]
    /\ cap = [w \in Workers |-> NoCap]
    /\ run = [w \in Workers |-> NoRun]

\* get_test_runner(...) with TestSets made for this call
get_test_runner ==
    /\ script.builds < MaxBuilds
    /\ \E args \in Calls :
          IF Accepted(args, script.configured)
          THEN /\ registry' =
                    AttributesAfter(registry, args,
                                    ObjectsAfter(args, script.configured))
               /\ script' =
                    [script EXCEPT
                        !.objects = ObjectsAfter(args, script.configured),
                        !.args = args, !.outcome = "TestRunner",
                        !.builds = @ + 1,
                        !.parsed = @ \o FilesToAdd(registry'.test_sets,
                                                   registry'.before_set,
                                                   registry'.after_set)]
          ELSE /\ script' = [script EXCEPT !.args = args,
                                           !.objects = script.configured,
                                           !.outcome = "ValueError",
                                           !.builds = @ + 1]
               /\ UNCHANGED registry
    /\ UNCHANGED <<variables, pc, value, call, last, ret, cap, run,
                   defaults, thread, webtest, correlation>>

NextRegistry == get_test_runner

SpecRegistry == InitRegistry /\ [][NextRegistry]_vars

(***************************************************************************)
(* The parser: Webtest.parse feeds the events of the SAX parser to a       *)
(* WebtestHandler.  Attributes are sets of <<name, value>> pairs, texts    *)
(* are sequences of characters.  The document element is taken as open     *)
(* and is not an element the handler knows.                                *)
(***************************************************************************)
MaxEvents == 6
MaxOpen == 2

Has(attrs, key) == \E a \in attrs : a[1] = key

\* attrs.get(key, default)
Get(attrs, key, default) ==
    IF Has(attrs, key) THEN (CHOOSE a \in attrs : a[1] = key)[2] ELSE default

\* Request(attrs, line_number)
Request__init__(attrs) ==
    [url |-> Get(attrs, "Url", <<>>),
     method |-> Get(attrs, "Method", <<"G", "E", "T">>),
     body |-> <<>>, headers |-> <<>>, parameters |-> <<>>,
     capture |-> <<>>, description |-> <<>>]

\* the pair is put in front of the list
_add_attrs_prepending(attrs, to_list) ==
    IF Get(attrs, "Name", <<>>) # <<>> /\ Has(attrs, "Value")
    THEN << <<Get(attrs, "Name", <<>>), Get(attrs, "Value", <<>>)>> >> \o to_list
    ELSE to_list

\* a pair is added whatever the attributes are
_add_attrs_unchecked(attrs, to_list) ==
    Append(to_list, <<Get(attrs, "Name", <<>>), Get(attrs, "Value", <<>>)>>)

\* Request._add_attrs: to_list afterwards
_add_attrs(attrs, to_list) ==
    IF Get(attrs, "Name", <<>>) # <<>> /\ Has(attrs, "Value")
    THEN Append(to_list, <<Get(attrs, "Name", <<>>), Get(attrs, "Value", <<>>)>>)
    ELSE to_list

Containers == {"StringHttpBody", "Capture", "Description"}
ParameterElements == {"QueryStringParameter", "FormPostParameter"}

Malformed(h) == [h EXCEPT !.error = "MalformedXML"]

\* WebtestHandler.startElement: the handler afterwards
startElement(h, name, attrs) ==
    CASE name = "Request" ->
            [h EXCEPT !.request = <<Request__init__(attrs)>>]
      [] name = "Header" ->
            IF h.request = None THEN Malformed(h)
            ELSE [h EXCEPT !.request[1].headers = _add_attrs(attrs, @)]
      [] name \in ParameterElements ->
            IF h.request = None THEN Malformed(h)
            ELSE [h EXCEPT !.request[1].parameters = _add_attrs(attrs, @)]
      [] name \in Containers -> [h EXCEPT !.in_element = name]
      [] OTHER -> h

\* WebtestHandler.characters: the handler afterwards
characters(h, data) ==
    IF ~(data # <<>> /\ h.in_element # "") THEN h
    ELSE IF h.request = None THEN Malformed(h)
    ELSE CASE h.in_element = "StringHttpBody" ->
                [h EXCEPT !.request[1].body = @ \o data]
           [] h.in_element = "Capture" ->
                [h EXCEPT !.request[1].capture = @ \o data]
           [] OTHER ->
                [h EXCEPT !.request[1].description = @ \o data]

\* WebtestHandler.endElement: the handler afterwards
endElement(h, name) ==
    CASE name = "Request" ->
            [h EXCEPT !.requests = Append(@, h.request), !.request = None]
      [] name \in Containers -> [h EXCEPT !.in_element = ""]
      [] OTHER -> h

\* the handler after one event of the SAX parser
Handle(h, e) ==
    CASE e.kind = "start" -> startElement(h, e.name, e.attrs)
      [] e.kind = "characters" -> characters(h, e.data)
      [] OTHER -> endElement(h, e.name)

\* the handler after the events of a document; an exception ends the parse
RECURSIVE Feed(_, _)
Feed(h, events) ==
    IF events = <<>> \/ h.error # "" THEN h
    ELSE Feed(Handle(h, Head(events)), Tail(events))

Start(name, attrs) == [kind |-> "start", name |-> name, attrs |-> attrs,
                       data |-> <<>>]
End(name) == [kind |-> "end", name |-> name, attrs |-> {}, data |-> <<>>]
Characters(data) == [kind |-> "characters", name |-> "", attrs |-> {},
                     data |-> data]

\* the elements and the character data of the documents
A_get == {<<"Url", <<"/", "a">>>>}
A_post == {<<"Url", <<"/", "b">>>>, <<"Method", <<"P", "O", "S", "T">>>>}
A_h == {<<"Name", <<"h">>>>, <<"Value", <<"1">>>>}
A_q == {<<"Name", <<"q">>>>, <<"Value", <<>>>>}
A_noName == {<<"Name", <<>>>>, <<"Value", <<"1">>>>}
A_noValue == {<<"Name", <<"h">>>>}

Starts ==
    { Start("Request", A_get), Start("Request", A_post),
      Start("Header", A_h), Start("Header", A_q), Start("Header", A_noName),
      Start("QueryStringParameter", A_h), Start("FormPostParameter", A_q),
      Start("FormPostParameter", A_noValue),
      Start("StringHttpBody", {}), Start("Description", {}),
      Start("Other", {}) }

Data == {<<"x">>, <<" ">>}

\* how many times parse is called on the Webtest object
MaxParses == 2

\* the files parsed, one name for each call
ParsedFile(k) == IF k = 0 THEN <<"f">> ELSE <<"g">>

\* the SAX parser starts on the file, with the handler made in
\* Webtest.__init__ as it is
ParseBegin ==
    webtest' = [webtest EXCEPT !.filename = ParsedFile(webtest.parses),
                               !.status = "parsing",
                               !.handler.error = "",
                               !.open = <<>>,
                               !.before = Len(webtest.elements),
                               !.parses = @ + 1]

\* Webtest.parse(filename), or Webtest(filename), on a new object
parse ==
    /\ webtest.status = "new"
    /\ ParseBegin
    /\ UNCHANGED <<variables, pc, value, call, last, ret, cap, run,
                   defaults, registry, thread, script, correlation>>

\* the event e reaches the handler; an exception of the handler leaves parse
Event(e, open) ==
    /\ webtest.status = "parsing"
    /\ webtest.n < MaxEvents
    /\ webtest' =
          [webtest EXCEPT
              !.handler = Handle(@, e),
              !.status = IF Handle(webtest.handler, e).error # ""
                         THEN "MalformedXML" ELSE @,
              !.open = open, !.n = @ + 1, !.event = e,
              !.elements = IF e.kind = "start" /\ e.name = "Request"
                           THEN Append(@, e.attrs) ELSE @]
    /\ UNCHANGED <<variables, pc, value, call, last, ret, cap, run,
                   defaults, registry, thread, script, correlation>>

\* an opening tag
sax_startElement ==
    /\ Len(webtest.open) < MaxOpen
    /\ \E e \in Starts : Event(e, Append(webtest.open, e.name))

\* character data inside the document element
sax_characters ==
    /\ webtest.status = "parsing"
    /\ \E data \in Data : Event(Characters(data), webtest.open)

\* the closing tag of the innermost open element
sax_endElement ==
    /\ webtest.open # <<>>
    /\ Event(End(webtest.open[Len(webtest.open)]),
             SubSeq(webtest.open, 1, Len(webtest.open) - 1))

\* the document is not well-formed, as with text outside the document
\* element: `except sax.SAXParseException, e: raise MalformedXML(e)`
SAXParseException ==
    /\ webtest.status = "parsing"
    /\ webtest' = [webtest EXCEPT !.status = "MalformedXML"]
    /\ UNCHANGED <<variables, pc, value, call, last, ret, cap, run,
                   defaults, registry, thread, script, correlation>>

\* the end of the document: `self.requests = self._handler.requests`
parse_return ==
    /\ webtest.status = "parsing"
    /\ webtest.open = <<>>
    /\ webtest' = [webtest EXCEPT !.status = "parsed",
                                  !.requests = webtest.handler.requests]
    /\ UNCHANGED <<variables, pc, value, call, last, ret, cap, run,
                   defaults, registry, thread, script, correlation>>

InitParse ==
    /\ defaults = <<>>
    /\ registry = NoRegistry
    /\ thread = FirstThreads
    /\ script = NoScript
    /\ webtest = NoWebtest
    /\ correlation = NoCorrelations
    /\ variables = [w \in Workers |-> <<>>]
    /\ pc = [w \in Workers |-> "unborn"]
    /\ value = [w \in Workers |-> <<>>]
    /\ call = [w \in Workers |-> NoCall]
    /\ last = [w \in Workers |-> NoIter]
    /\ ret = [w \in Workers |-> "done"]
    /\ cap = [w \in Workers |-> NoCap]
    /\ run = [w \in Workers |-> NoRun]

NextParse ==
    \/ parse
    \/ sax_startElement
    \/ sax_characters
    \/ sax_endElement
    \/ SAXParseException
    \/ parse_return

SpecParse == InitParse /\ [][NextParse]_vars

\* Webtest.parse(filename) called again, after a parse that returned or
\* raised
parse_again ==
    /\ webtest.status \in {"parsed", "MalformedXML"}
    /\ webtest.parses < MaxParses
    /\ ParseBegin
    /\ UNCHANGED <<variables, pc, value, call, last, ret, cap, run,
                   defaults, registry, thread, script, correlation>>

NextReparse ==
    \/ parse
    \/ parse_again
    \/ sax_startElement
    \/ sax_characters
    \/ sax_endElement
    \/ SAXParseException
    \/ parse_return

SpecReparse == InitParse /\ [][NextReparse]_vars

(***************************************************************************)
(* CorrelationRunner (correlate.py): a WebtestRunner whose run_test_set    *)
(* keeps the body of every response.  The inherited execute is taken as a  *)
(* whole: it returns one of the responses or raises one of its exceptions. *)
(***************************************************************************)
\* how many times a worker is called
MaxCalls == 1

\* get_correlation_runner(test_sets, before_set): without a before_set, with
\* one, and with a TestSet of no files as before_set
CorrelationRegistries ==
    { Registry(<<TestSet(<<"login">>, <<1, 1>>), TestSet(G_other, <<1, 1>>)>>,
               before_set, "sequential") :
        before_set \in {NoSet, TestSet(<<"login">>, <<1, 1>>),
                        TestSet(<<>>, <<1, 1>>)} }
    \cup
    { Registry(<<TestSet(G_form, <<1, 1>>)>>, NoSet, "sequential") }

\* `name in body`: the name occurs in the body
Contains(body, name) ==
    \E i \in 0..(Len(body) - Len(name)) :
        SubSeq(body, i + 1, i + Len(name)) = name

\* the characters of a parameter name
NameText(name) == <<name>>

\* found_in_tests: the test numbers of the responses that contain the name
RECURSIVE found_in_tests(_, _)
found_in_tests(responses, name) ==
    IF responses = <<>> THEN <<>>
    ELSE (IF Contains(Head(responses)[2], NameText(name))
          THEN <<Head(responses)[1]>> ELSE <<>>)
         \o found_in_tests(Tail(responses), name)

\* correlate looking for every parameter, one with a variable set included
correlate_unfiltered(webtest_responses, store, filename, request) ==
    LET responses == IF filename \in DOMAIN webtest_responses
                     THEN webtest_responses[filename] ELSE <<>>
    IN  IF responses = <<>> THEN <<>>
        ELSE [i \in 1..Len(request.parameters) |->
                LET name == request.parameters[i][1]
                    val == request.parameters[i][2]
                IN  IF val = <<>>
                    THEN [name |-> name, log |-> "...", tests |-> <<>>]
                    ELSE IF found_in_tests(responses, name) # <<>>
                    THEN [name |-> name, log |-> "+++",
                          tests |-> found_in_tests(responses, name)]
                    ELSE [name |-> name, log |-> "---", tests |-> <<>>]]

\* CorrelationRunner.correlate(filename, request): the lines it logs, one
\* for each parameter, and none when the file has no responses yet
correlate(webtest_responses, store, filename, request) ==
    LET responses == IF filename \in DOMAIN webtest_responses
                     THEN webtest_responses[filename] ELSE <<>>
    IN  IF responses = <<>> THEN <<>>
        ELSE [i \in 1..Len(request.parameters) |->
                LET name == request.parameters[i][1]
                    val == request.parameters[i][2]
                IN  IF NameText(name) \in DOMAIN store
                    THEN [name |-> name, log |-> ":-)", tests |-> <<>>]
                    ELSE IF val = <<>>
                    THEN [name |-> name, log |-> "...", tests |-> <<>>]
                    ELSE IF found_in_tests(responses, name) # <<>>
                    THEN [name |-> name, log |-> "+++",
                          tests |-> found_in_tests(responses, name)]
                    ELSE [name |-> name, log |-> "---", tests |-> <<>>]]

\* what execute may raise
ExecuteErrors == {"CaptureFailed", "ValueError"}

InitCorrelate ==
    /\ \E reg \in CorrelationRegistries : registry = reg
    /\ \E store \in RunnerStores : defaults = store
    /\ thread = FirstThreads
    /\ script = NoScript
    /\ webtest = NoWebtest
    /\ correlation = NoCorrelations
    /\ variables = [w \in Workers |-> <<>>]
    /\ pc = [w \in Workers |-> "unborn"]
    /\ value = [w \in Workers |-> <<>>]
    /\ call = [w \in Workers |-> NoCall]
    /\ last = [w \in Workers |-> NoIter]
    /\ ret = [w \in Workers |-> "done"]
    /\ cap = [w \in Workers |-> NoCap]
    /\ run = [w \in Workers |-> NoRun]

CorrelationFrame ==
    UNCHANGED <<pc, value, call, last, ret, cap, run, defaults, registry,
                thread, script, webtest>>

\* CorrelationRunner.__init__ up to the end of `self.variables = variables`
\* in WebtestRunner.__init__: with a before_set the overridden run_test_set
\* is called next, without one webtest_responses is set to {}
CorrelationRunner__init__(w) ==
    /\ correlation[w].status = "unborn"
    /\ variables' = [variables EXCEPT ![w] = defaults]
    /\ correlation' =
          [correlation EXCEPT ![w] =
              IF registry.before_set.truth
              THEN [@ EXCEPT !.status = "run_test_set", !.in_init = TRUE,
                             !.queue = <<registry.before_set>>,
                             !.f = 1, !.r = 1]
              ELSE [@ EXCEPT !.status = "idle", !.has_responses = TRUE,
                             !.webtest_responses = <<>>]]
    /\ CorrelationFrame

\* the filename the loop of run_test_set is at
CorrelationFile(c) == Head(c.queue).filenames[c.f]

\* `for filename in test_set.filenames:` with a filename left, and
\* `if filename not in self.webtest_responses`, which reads the attribute
correlate_filename(w) ==
    /\ correlation[w].status = "run_test_set"
    /\ correlation[w].queue # <<>>
    /\ correlation[w].f <= Len(Head(correlation[w].queue).filenames)
    /\ correlation' =
          [correlation EXCEPT ![w] =
              IF ~@.has_responses
              THEN [@ EXCEPT !.status = "raised", !.raised = "AttributeError"]
              ELSE [@ EXCEPT
                      !.status = "request", !.r = 1,
                      !.webtest_responses =
                          [n \in DOMAIN @ \cup {CorrelationFile(correlation[w])} |->
                              IF n \in DOMAIN @ THEN @[n] ELSE <<>>]]]
    /\ UNCHANGED variables
    /\ CorrelationFrame

\* the requests of the file have been run: the next filename
correlate_file_done(w) ==
    /\ correlation[w].status = "request"
    /\ correlation[w].r >
          Len(registry.webtest_requests[CorrelationFile(correlation[w])])
    /\ correlation' = [correlation EXCEPT ![w].status = "run_test_set",
                                          ![w].f = @ + 1]
    /\ UNCHANGED variables
    /\ CorrelationFrame

\* the request the loop of run_test_set is at
CorrelationRequest(c) == registry.webtest_requests[CorrelationFile(c)][c.r]

\* `self.correlate(filename, request)` for the next request of the file
correlate_request(w) ==
    /\ correlation[w].status = "request"
    /\ correlation[w].r <=
          Len(registry.webtest_requests[CorrelationFile(correlation[w])])
    /\ correlation' =
          [correlation EXCEPT
              ![w].status = "execute",
              ![w].report = correlate(correlation[w].webtest_responses,
                                      variables[w],
                                      CorrelationFile(correlation[w]),
                                      CorrelationRequest(correlation[w]))]
    /\ UNCHANGED variables
    /\ CorrelationFrame

\* self.execute(test, wrapper, request) returns a response, whose body is
\* appended to the list of the file (with the number of the request)
correlate_execute(w) ==
    /\ correlation[w].status = "execute"
    /\ correlation[w].r <=
          Len(registry.webtest_requests[CorrelationFile(correlation[w])])
    /\ \E response \in Responses :
          correlation' =
              [correlation EXCEPT
                  ![w].webtest_responses[CorrelationFile(correlation[w])] =
                      Append(@, <<correlation[w].r, response.body>>),
                  ![w].r = @ + 1, ![w].status = "request"]
    /\ UNCHANGED variables
    /\ CorrelationFrame

\* self.execute raises (CaptureFailed when the request has a Capture): the
\* exception leaves run_test_set
correlate_execute_raises(w) ==
    /\ correlation[w].status = "execute"
    /\ correlation[w].r <=
          Len(registry.webtest_requests[CorrelationFile(correlation[w])])
    /\ \E exc \in ExecuteErrors :
          /\ exc = "CaptureFailed"
                => CorrelationRequest(correlation[w]).capture # <<>>
          /\ correlation' = [correlation EXCEPT ![w].status = "raised",
                                                ![w].raised = exc]
    /\ UNCHANGED variables
    /\ CorrelationFrame

\* the files of the TestSet have been run: the next TestSet of __call__; at
\* the end of them __call__ returns, and WebtestRunner.__init__ returns to
\* `self.webtest_responses = {}`
correlate_run_test_set_return(w) ==
    /\ correlation[w].status = "run_test_set"
    /\ correlation[w].queue # <<>>
    /\ correlation[w].f > Len(Head(correlation[w].queue).filenames)
    /\ correlation' =
          [correlation EXCEPT ![w] =
              IF Len(@.queue) > 1
              THEN [@ EXCEPT !.queue = Tail(@), !.f = 1, !.r = 1]
              ELSE IF @.in_init
              THEN [@ EXCEPT !.queue = <<>>, !.status = "idle",
                             !.in_init = FALSE, !.has_responses = TRUE,
                             !.webtest_responses = <<>>]
              ELSE [@ EXCEPT !.queue = <<>>, !.status = "idle"]]
    /\ UNCHANGED variables
    /\ CorrelationFrame

\* the inherited __call__: the TestSets to run
Correlation__call__(w) ==
    /\ correlation[w].status = "idle"
    /\ correlation[w].calls < MaxCalls
    /\ \E draw \in Draws(registry.sequence, registry.test_sets) :
          correlation' =
              [correlation EXCEPT
                  ![w].status = "run_test_set",
                  ![w].queue = Queue(w, registry.sequence, registry.test_sets,
                                     draw),
                  ![w].f = 1, ![w].r = 1, ![w].calls = @ + 1]
    /\ UNCHANGED variables
    /\ CorrelationFrame

NextCorrelate ==
    \E w \in Workers :
        \/ CorrelationRunner__init__(w)
        \/ correlate_filename(w)
        \/ correlate_file_done(w)
        \/ correlate_request(w)
        \/ correlate_execute(w)
        \/ correlate_execute_raises(w)
        \/ correlate_run_test_set_return(w)
        \/ Correlation__call__(w)

SpecCorrelate == InitCorrelate /\ [][NextCorrelate]_vars

(***************************************************************************)
(* The grammar of {...} blocks as the specification states it: the whole   *)
(* contents of a block is one of the four forms.                           *)
(***************************************************************************)
AllIn(e, a, b, S) == a <= b /\ \A i \in a..b : e[i] \in S
NoneIs(e, a, b, c) == \A i \in a..b : e[i] # c

WholeVar(e) == AllIn(e, 1, Len(e), NameChar)

WholeMacro(e) ==
    \E q \in 2..(Len(e) - 1) :
        /\ AllIn(e, 1, q - 1, MacroNameChar)
        /\ e[q] = "(" /\ e[Len(e)] = ")"
        /\ NoneIs(e, q + 1, Len(e) - 1, ")")

WholeLiteral(e) == Len(e) >= 1 /\ NoneIs(e, 1, Len(e), "}")

\* NAME, an optional space, "=", an optional space, and a right-hand side
WholeAssign(e, Rhs(_)) ==
    \E n \in 1..Len(e) : \E p \in {n + 1, n + 2} : \E st \in {p + 1, p + 2} :
        /\ AllIn(e, 1, n, NameChar)
        /\ p <= Len(e) /\ e[p] = "="
        /\ (p = n + 2 => e[n + 1] = " ")
        /\ (st = p + 2 => p + 1 <= Len(e) /\ e[p + 1] = " ")
        /\ Rhs(SubSeq(e, st, Len(e)))

WholeForm(e) ==
    WholeVar(e) \/ WholeMacro(e) \/ WholeAssign(e, WholeLiteral)
        \/ WholeAssign(e, WholeMacro)

\* the right-hand side calls a registered macro
RegisteredCall(e) ==
    /\ WholeMacro(e)
    /\ \E q \in 1..Len(e) : SubSeq(e, 1, q) \in {M_today, M_timestamp} /\ e[q + 1] = "("

\* the number of {...} blocks of a text that are not expanded yet
RECURSIVE BlocksFrom(_, _)
BlocksFrom(s, i) ==
    IF re_expansion(SubSeq(s, i, Len(s))).matched
    THEN 1 + BlocksFrom(s, EscRun(s, EscRun(s, i, "{") + 1, "}") + 1)
    ELSE 0

BlockCount(s) == BlocksFrom(s, 1)

Iterated(w) == last[w].rule # "none"
Finished(w) == pc[w] = "done"

(***************************************************************************)
(* Claims about eval_expressions, checked under SpecExpand.                *)
(***************************************************************************)

\* C1: expanding a text made of {A = x}, plain text and then {A} returns
\* the text with both blocks replaced by x, and leaves A = x in the store.
C1_AssignThenReuse ==
    \A w \in Workers : \A mid \in Plain :
        (Finished(w) /\ call[w].text = T_assign \o mid \o T_var)
            => /\ call[w].status = "returned"
               /\ call[w].result = V_x \o mid \o V_x
               /\ N_A \in DOMAIN variables[w]
               /\ variables[w][N_A] = V_x

\* C2: a block whose whole contents is none of the four forms raises
\* SyntaxError, and no variable is assigned for it.
C2_MalformedRejected ==
    \A w \in Workers :
        (Iterated(w) /\ ~WholeForm(last[w].expression))
            => /\ last[w].raised = "SyntaxError"
               /\ variables[w] = last[w].store

\* C3: a block NAME = m(args) with NAME of uppercase letters, digits and
\* underscores and m a registered macro is handled as a macro assignment
\* (never as the assignment of the literal text), and only such names are
\* accepted as the target of a macro assignment.
C3_MacroAssignPrecedence ==
    \A w \in Workers :
        Iterated(w) =>
            /\ WholeAssign(last[w].expression, RegisteredCall)
                  => /\ last[w].rule = "var_macro"
                     /\ last[w].raised = ""
                     /\ variables[w][last[w].name] = last[w].expanded
            /\ last[w].rule = "var_macro" => WholeVar(last[w].name)

\* C4: a block {NAME} whose NAME is not in the store raises NameError and
\* the store stays as it was, without NAME; blocks of the forms {NAME} and
\* {macro(args)} never change the store.
C4_UndefinedVariable ==
    \A w \in Workers :
        Iterated(w) =>
            /\ (WholeVar(last[w].expression)
                    /\ last[w].expression \notin DOMAIN last[w].store)
                  => /\ last[w].raised = "NameError"
                     /\ Finished(w) /\ call[w].status = "NameError"
                     /\ variables[w] = last[w].store
                     /\ last[w].expression \notin DOMAIN variables[w]
            /\ (WholeVar(last[w].expression) \/ WholeMacro(last[w].expression))
                  => variables[w] = last[w].store

\* a {NAME} block with NAME undefined has been evaluated
C4_Witness ==
    \E w \in Workers :
        /\ Iterated(w) /\ last[w].expression = N_B
        /\ N_B \notin DOMAIN last[w].store
        /\ call[w].status = "NameError"

\* C5: a text whose only braces are escaped is returned unchanged and the
\* store is untouched; a {A} block between escaped braces is expanded and
\* the escaped braces and the text around it stay as they are.
C5_EscapedBraces ==
    \A w \in Workers :
        Finished(w) =>
            /\ (\A i \in 1..Len(call[w].text) :
                    call[w].text[i] \in {"{", "}"}
                        => (i > 1 /\ call[w].text[i - 1] = BS))
                  => /\ call[w].status = "returned"
                     /\ call[w].result = call[w].text
                     /\ variables[w] = call[w].store
            /\ \A a, b \in Plain :
                  (/\ call[w].text = T_escOpen \o a \o T_var \o b \o T_escClose
                   /\ N_A \in DOMAIN call[w].store
                   /\ call[w].store[N_A] = V_v)
                      => /\ call[w].status = "returned"
                         /\ call[w].result =
                                T_escOpen \o a \o V_v \o b \o T_escClose

\* C6: every pass of the loop leaves fewer unexpanded blocks in the working
\* string than there were before it.
C6_BlocksDecrease ==
    \A w \in Workers :
        (pc[w] = "expand" /\ Iterated(w))
            => BlockCount(value[w]) < BlockCount(last[w].value)

(***************************************************************************)
(* Claims about eval_capture, checked under SpecCapture.                   *)
(***************************************************************************)
Captured(w) == pc[w] = "capture_line" /\ cap[w].k > 1
CapturedLine(w) == cap[w].lines[cap[w].k - 1]

\* C7: a capture line {NAME = pattern} whose pattern matches the body sets
\* NAME to the text of the first group if the pattern has a group
\* ({C = <S>(..)</S>} gives 31) and to the whole match otherwise
\* ({E = <S>..</S>} gives <S>31</S>), and the line changes no other variable.
C7_CaptureSets ==
    \A w \in Workers :
        Captured(w) =>
            /\ CapturedLine(w) = CL_group => variables[w][N_C] = V_31
            /\ CapturedLine(w) = CL_whole => variables[w][N_E] = B_element
            /\ \A n \in DOMAIN variables[w] \ {cap[w].name} :
                  /\ n \in DOMAIN cap[w].lineStore
                  /\ variables[w][n] = cap[w].lineStore[n]

\* C8: when eval_capture ends with CaptureFailed the store is what it was
\* when eval_capture was called, also if earlier lines of the block matched.
C8_FailedCaptureKeepsStore ==
    \A w \in Workers :
        cap[w].status = "CaptureFailed" => variables[w] = cap[w].store

\* C9: eval_capture returns the number of variables it set: 0, with the
\* store unchanged, for a blank capture block, and n for a block of n
\* well-formed lines that all match.
C9_ReturnsCount ==
    \A w \in Workers :
        cap[w].status = "returned" =>
            /\ cap[w].nset = Len(cap[w].lines)
            /\ cap[w].result = <<cap[w].nset>>
            /\ strip(cap[w].capture) = <<>> => variables[w] = cap[w].store

(***************************************************************************)
(* Claims about the workers, checked under Spec.                           *)
(***************************************************************************)
\* the step of worker w assigns the variable `name`: an assignment block of
\* an expression, or a capture line
Assigns(w, name) ==
    \/ /\ pc[w] = "expand"
       /\ last'[w].rule \in {"var_literal", "var_macro"}
       /\ last'[w].name = name
       /\ variables'[w][name] = last'[w].expanded
    \/ /\ pc[w] = "capture_search"
       /\ cap[w].name = name

StoreKept(w) ==
    /\ \A name \in DOMAIN variables[w] :
          /\ name \in DOMAIN variables'[w]
          /\ variables'[w][name] # variables[w][name] => Assigns(w, name)
    /\ \A name \in DOMAIN variables'[w] \ DOMAIN variables[w] :
          pc[w] = "unborn" \/ Assigns(w, name)

LookupSeesStore(w) ==
    (Iterated(w) /\ last[w].rule = "var" /\ last[w].raised = "")
        => last[w].expanded = last[w].store[last[w].name]

\* C10: a worker has one variable store for all it runs: a variable assigned
\* by an expression or set by a capture keeps its value, and is seen with
\* that value by every later lookup, through later requests, documents and
\* invocations until it is assigned again; no step resets the store.
C10_SharedStore ==
    [][\A w \in Workers : StoreKept(w) /\ LookupSeesStore(w)]_vars

\* in the random sequence, a worker running other.webtest looks up C, which
\* a capture of login.webtest set in an earlier invocation, while U, which
\* an expression of login.webtest assigned, is still in its store
C10_Witness ==
    \E w \in Workers :
        /\ registry.sequence = "random" /\ defaults = <<>>
        /\ run[w].status = "running" /\ ~run[w].in_init
        /\ run[w].filenames = G_other
        /\ Iterated(w) /\ last[w].rule = "var" /\ last[w].name = N_C
        /\ last[w].expanded = V_31
        /\ variables[w][N_U] = V_x

\* a step in which worker w may write its store: its creation, a pass of
\* the loop of eval_expressions, or the assignment of eval_capture
StoreWriter(w) == pc[w] \in {"unborn", "expand", "capture_search"}

Isolated(w) ==
    /\ variables'[w] # variables[w]
          => /\ StoreWriter(w)
             /\ \A o \in Workers \ {w} : variables'[o] = variables[o]
    /\ (pc[w] = "unborn" /\ pc'[w] # "unborn") => variables'[w] = defaults

\* C11: an assignment or capture of one worker changes the store of that
\* worker only, the default variables given to get_test_runner never change,
\* and a worker is created with exactly the defaults, whatever the workers
\* before it have assigned.
C11_WorkersIsolated ==
    [][(\A w \in Workers : Isolated(w)) /\ defaults' = defaults]_vars

\* one worker has assigned U while another worker, created from the same
\* class, still has the defaults, which do not define U
C11_Witness ==
    \E w, o \in Workers :
        /\ w # o
        /\ N_U \in DOMAIN variables[w] /\ variables[w][N_U] = V_x
        /\ pc[o] = "idle" /\ variables[o] = defaults
        /\ N_U \notin DOMAIN defaults

\* the requests of one document, as the calls they make, in document order
DocCalls(filename) ==
    [i \in 1..Len(Documents[filename]) |-> <<filename, i>>]

\* the calls of the documents of one TestSet, in member order
RECURSIVE FilesCalls(_)
FilesCalls(filenames) ==
    IF filenames = <<>> THEN <<>>
    ELSE DocCalls(Head(filenames)) \o FilesCalls(Tail(filenames))

\* the calls of all TestSets of a list, in list order
RECURSIVE AllCalls(_)
AllCalls(sets) ==
    IF sets = <<>> THEN <<>>
    ELSE FilesCalls(Head(sets).filenames) \o AllCalls(Tail(sets))

IsPrefix(a, b) == Len(a) <= Len(b) /\ SubSeq(b, 1, Len(a)) = a

FilenamesOf(sets) == [i \in 1..Len(sets) |-> sets[i].filenames]

\* an invocation of __call__ (not the before_set run of __init__)
Invocation(w) == run[w].status \in {"running", "returned"} /\ ~run[w].in_init

ThreadSet(w) ==
    registry.test_sets[(thread[w] % Len(registry.test_sets)) + 1]

\* C13: in thread mode every invocation of the worker in thread i begins the
\* TestSet at position i mod groupCount and no other; with 2 TestSets the
\* threads 0..4 take the TestSets 0, 1, 0, 1, 0; a worker whose thread number
\* is below the number of TestSets takes the TestSet at its own position, so
\* the positions from the number of workers on are never run.
C13_ThreadMode ==
    \A w \in Workers :
        (registry.sequence = "thread" /\ run[w].status # "none"
         /\ ~run[w].in_init) =>
            /\ IsPrefix(run[w].ran, <<ThreadSet(w).filenames>>)
            /\ pc[w] \notin {"run_test_set", "idle"} =>
                  run[w].ran = <<ThreadSet(w).filenames>>
            /\ Len(registry.test_sets) = 2 =>
                  ThreadSet(w) = registry.test_sets[
                      IF thread[w] \in {0, 2, 4} THEN 1 ELSE 2]
            /\ thread[w] < Len(registry.test_sets) =>
                  ThreadSet(w) = registry.test_sets[thread[w] + 1]

\* with 2 TestSets the worker in thread 4 has wrapped around to the first
\* one and returned from it
C13_Witness ==
    \E w \in Workers :
        /\ registry.sequence = "thread" /\ Len(registry.test_sets) = 2
        /\ thread[w] = 4
        /\ run[w].status = "returned" /\ ~run[w].in_init
        /\ run[w].ran = <<registry.test_sets[1].filenames>>

\* the sum of the weights of the first i TestSets
RECURSIVE Cumulative(_, _)
Cumulative(sets, i) ==
    IF i = 0 THEN <<0, 1>> ELSE Add(Cumulative(sets, i - 1), sets[i].weight)

InInterval(sets, i, p) ==
    Leq(Cumulative(sets, i - 1), p) /\ Leq(p, Cumulative(sets, i))

\* the positions whose interval contains p, none before them doing so
FirstIntervals(sets, p) ==
    {i \in 1..Len(sets) :
        InInterval(sets, i, p) /\ \A j \in 1..(i - 1) : ~InInterval(sets, j, p)}

\* C14: in weighted mode every invocation begins exactly one TestSet, the
\* first one, scanning from the left, whose cumulative weight interval
\* contains its draw; a draw on the boundary of two intervals takes the
\* earlier TestSet; with weights 1/4 and 3/4 a draw below or at 1/4 takes the
\* first TestSet and a draw above 1/4 takes the second.
C14_WeightedPick ==
    \A w \in Workers :
        (registry.sequence = "weighted" /\ run[w].status # "none"
         /\ ~run[w].in_init) =>
            /\ Len(run[w].ran) <= 1
            /\ pc[w] \notin {"run_test_set", "idle"} => Len(run[w].ran) = 1
            /\ \A k \in 1..Len(run[w].ran) :
                  /\ \E i \in FirstIntervals(registry.test_sets, run[w].draw) :
                        run[w].ran[k] = registry.test_sets[i].filenames
                  /\ registry.test_sets[1].weight = <<1, 4>> =>
                        run[w].ran[k] = registry.test_sets[
                            IF Leq(run[w].draw, <<1, 4>>) THEN 1 ELSE 2].filenames

\* one worker drew exactly 1/4 and ran the first TestSet, the other drew
\* 7/8 and ran the second
C14_Witness ==
    \E w, o \in Workers :
        /\ registry.sequence = "weighted"
        /\ ~run[w].in_init /\ run[w].draw = <<1, 4>>
        /\ run[w].ran = <<registry.test_sets[1].filenames>>
        /\ ~run[o].in_init /\ run[o].draw = <<7, 8>>
        /\ run[o].ran = <<registry.test_sets[2].filenames>>

\* the sum of the weights of a list of TestSets
RECURSIVE WeightSum(_)
WeightSum(sets) ==
    IF sets = <<>> THEN <<0, 1>>
    ELSE Add(Head(sets).weight, WeightSum(Tail(sets)))

Eq(a, b) == a[1] * b[2] = b[1] * a[2]

\* the TestSets of the last call, as the script made them
ConfiguredSets ==
    [i \in 1..Len(script.args.test_sets.items) |->
        script.configured[script.args.test_sets.items[i]]]

\* the registry has just been built in weighted mode, with some TestSet
WeightedBuilt ==
    /\ script.outcome = "TestRunner"
    /\ script.args.sequence = "weighted"
    /\ script.args.test_sets.items # <<>>

\* C15: after the registry has been built in weighted mode, the weights of
\* the TestSets of the list sum to 1 and the weight of each is the weight it
\* was made with divided by the sum of the weights the TestSets of the list
\* were made with, also when one TestSet object is in the list twice.
C15_WeightsNormalized ==
    WeightedBuilt =>
        /\ Eq(WeightSum(registry.test_sets), <<1, 1>>)
        /\ \A i \in 1..Len(registry.test_sets) :
              Eq(registry.test_sets[i].weight,
                 Div(ConfiguredSets[i].weight, WeightSum(ConfiguredSets)))

\* worker w takes a step in which a capture of its invocation fails
CaptureFails(w) ==
    /\ run[w].status = "running" /\ ~run[w].in_init
    /\ cap[w].status = "running" /\ cap'[w].status = "CaptureFailed"

\* C16: a CaptureFailed raised in an invocation is caught by run_test_set:
\* the invocation goes on running, the test is marked unsuccessful, no
\* further request of that TestSet is sent (the next thing the invocation
\* does is to begin the next TestSet of its queue or to return), and after
\* the return the worker is idle again with the variables it had.
C16_CaptureFailedCaught ==
    [][\A w \in Workers :
        /\ CaptureFails(w) =>
              /\ pc'[w] = "run_test_set"
              /\ run'[w].status = "running" /\ ~run'[w].success
              /\ run'[w].calls = run[w].calls
              /\ run'[w].queue = run[w].queue
              /\ variables'[w] = variables[w]
        /\ (pc[w] = "run_test_set" /\ run[w].caught /\ ~run[w].in_init
            /\ pc'[w] # pc[w]) =>
              /\ run'[w].calls = run[w].calls
              /\ variables'[w] = variables[w]
              /\ \/ /\ run[w].queue # <<>>
                    /\ run'[w].ran =
                          Append(run[w].ran, Head(run[w].queue).filenames)
                    /\ run'[w].r = 1 /\ run'[w].f = 1
                 \/ /\ run[w].queue = <<>>
                    /\ pc'[w] = "done" /\ run'[w].status = "returned"
        /\ (pc[w] = "done" /\ run[w].caught /\ pc'[w] # pc[w]) =>
              /\ pc'[w] = "idle"
              /\ variables'[w] = variables[w]
      ]_vars

\* a sequential invocation has returned after the capture of the first
\* request of login failed: the second request of login and the request of
\* item were not sent, the request of other was
C16_Witness ==
    \E w \in Workers :
        /\ run[w].status = "returned" /\ run[w].caught /\ ~run[w].in_init
        /\ run[w].calls = << <<"login", 1>>, <<"other", 1>> >>

\* C17: a failure while __init__ runs the before_set makes the creation of
\* the worker fail: a worker in whose before_set run a capture has failed
\* never becomes a created worker that can be invoked.
C17_BeforeSetFailureFatal ==
    [][\A w \in Workers :
        (run[w].in_init /\ run[w].caught) => pc'[w] # "idle"]_vars

\* the method of the request a call was made for
CallMethod(c) == registry.webtest_requests[c[1]][c[2]].method

\* C18: a request whose method is neither GET nor POST is never sent: every
\* call made is for a GET or a POST request, and when the worker reaches such
\* a request its invocation ends with ValueError, having made exactly the
\* calls of the requests of the TestSet that come before it and none after.
C18_UnsupportedMethod ==
    \A w \in Workers :
        /\ \A i \in 1..Len(run[w].calls) :
              CallMethod(run[w].calls[i]) \in {"GET", "POST"}
        /\ (pc[w] = "executed" /\ run[w].status = "running") =>
              run[w].sent.method \in {"GET", "POST"}
        /\ run[w].status = "ValueError" =>
              /\ pc[w] \in {"done", "dead"}
              /\ Requests(run[w])[run[w].r].method \notin {"GET", "POST"}
              /\ IsPrefix(
                    run[w].calls \o << <<run[w].filenames[run[w].f], run[w].r>> >>,
                    FilesCalls(run[w].filenames))

\* an invocation has ended with ValueError at the PUT request of put, after
\* the call of the GET request before it and without the GET after it
C18_Witness ==
    \E w \in Workers :
        /\ run[w].status = "ValueError" /\ pc[w] = "done"
        /\ run[w].calls = << <<"put", 1>> >>
        /\ Len(Requests(run[w])) = 3 /\ run[w].r = 2

\* the arguments have one of the shape errors: test_sets is no list, a member
\* of it is no TestSet, before_set or after_set is given (is not None) and is
\* no TestSet, or the sequence, the verbosity or the macro class is unknown
ShapeError(args, objects) ==
    \/ args.test_sets.type # "list"
    \/ \E i \in 1..Len(args.test_sets.items) :
          objects[args.test_sets.items[i]].type # "TestSet"
    \/ objects[args.before_set].type \notin {"NoneType", "TestSet"}
    \/ objects[args.after_set].type \notin {"NoneType", "TestSet"}
    \/ args.sequence \notin {"sequential", "random", "weighted", "thread"}
    \/ args.verbosity \notin {"debug", "info", "quiet", "error"}
    \/ args.macro_class # "Macro"

\* C19: a get_test_runner call whose arguments have a shape error ends with
\* ValueError, parses no document and leaves every class attribute as it was.
C19_ShapeErrorsRejected ==
    [][(script'.builds # script.builds
        /\ ShapeError(script'.args, script.configured)) =>
            /\ script'.outcome = "ValueError"
            /\ script'.parsed = script.parsed
            /\ registry' = registry
      ]_vars

\* no expression is left in the text
NoBlock(text) == \A i \in 1..Len(text) : text[i] # "{"

\* C20: when a request has been handed to the HTTP wrapper, no expression is
\* left in the URL, in any header value, in any parameter value or in the
\* body that was sent.
C20_AllFieldsExpanded ==
    \A w \in Workers :
        (pc[w] = "executed" /\ run[w].sent # NoSent) =>
            /\ NoBlock(run[w].sent.url)
            /\ \A i \in 1..Len(run[w].sent.headers) :
                  NoBlock(run[w].sent.headers[i][2])
            /\ IF Requests(run[w])[run[w].r].body # <<>>
               THEN NoBlock(run[w].sent.data)
               ELSE \A i \in 1..Len(run[w].sent.data) :
                       NoBlock(run[w].sent.data[i][2])

\* the step feeds an event to the handler
Fed == webtest'.n # webtest.n

InContainer(open) == \E i \in 1..Len(open) : open[i] \in Containers
InRequest(open) == \E i \in 1..Len(open) : open[i] = "Request"

NonWhite(data) == \E i \in 1..Len(data) : data[i] \notin White

\* C21: character data that is not whitespace and occurs outside every
\* StringHttpBody, Capture and Description element makes parse fail with
\* MalformedXML.
C21_StrayTextRejected ==
    [][(Fed /\ webtest'.event.kind = "characters"
        /\ NonWhite(webtest'.event.data) /\ ~InContainer(webtest.open)) =>
            webtest'.status = "MalformedXML"
      ]_vars

\* the tuple (url, method, headers, parameters, body) of a parsed request
Tuple(entry) ==
    <<entry[1].url, entry[1].method, entry[1].headers, entry[1].parameters,
      entry[1].body>>

Tuples(requests) == [i \in 1..Len(requests) |-> Tuple(requests[i])]

\* one element per pair, in order
RECURSIVE PairEvents(_, _)
PairEvents(name, pairs) ==
    IF pairs = <<>> THEN <<>>
    ELSE << Start(name, {<<"Name", Head(pairs)[1]>>,
                         <<"Value", Head(pairs)[2]>>}),
            End(name) >> \o PairEvents(name, Tail(pairs))

\* the document written from the tuples: a Request element with its Url and
\* Method, its headers, its parameters and its body, for each tuple
RECURSIVE Serialize(_)
Serialize(tuples) ==
    IF tuples = <<>> THEN <<>>
    ELSE << Start("Request", {<<"Url", Head(tuples)[1]>>,
                              <<"Method", Head(tuples)[2]>>}) >>
         \o PairEvents("Header", Head(tuples)[3])
         \o PairEvents("QueryStringParameter", Head(tuples)[4])
         \o (IF Head(tuples)[5] = <<>> THEN <<>>
             ELSE << Start("StringHttpBody", {}), Characters(Head(tuples)[5]),
                     End("StringHttpBody") >>)
         \o << End("Request") >>
         \o Serialize(Tail(tuples))

\* the document has been parsed and every request of it is a Request
ParsedRequests ==
    /\ webtest.status = "parsed"
    /\ \A i \in 1..Len(webtest.requests) : webtest.requests[i] # None

RECURSIVE Join(_, _)
Join(sep, ss) ==
    IF ss = <<>> THEN <<>>
    ELSE IF Len(ss) = 1 THEN Head(ss)
    ELSE Head(ss) \o sep \o Join(sep, Tail(ss))

\* "'%s': '%s'" % pair
PairStr(pair) == <<"'">> \o pair[1] \o <<"'", ":", " ", "'">> \o pair[2] \o <<"'">>

\* str(request): the description, the method, the server and path of the url
\* (a url of the model is a path: the server is empty) and the parameters;
\* the str of None is 'None'
Request__str__(entry) ==
    IF entry = None THEN <<"N", "o", "n", "e">>
    ELSE (IF entry[1].description # <<>>
          THEN entry[1].description \o <<":", " ">> ELSE <<>>)
         \o entry[1].method \o <<" ">> \o entry[1].url
         \o <<" ", "{">>
         \o Join(<<",", " ">>,
                 [i \in 1..Len(entry[1].parameters) |->
                     PairStr(entry[1].parameters[i])])
         \o <<"}">>

\* str(webtest)
Webtest__str__(w) ==
    <<"W", "e", "b", "t", "e", "s", "t", ":", " ">> \o w.filename
    \o <<NL, NL>>
    \o Join(<<NL, NL>>, [i \in 1..Len(w.requests) |-> Request__str__(w.requests[i])])

EmptyWebtest == <<"E", "m", "p", "t", "y", " ", "W", "e", "b", "t", "e", "s", "t">>

\* C23: a Webtest made without a file has an empty filename, no requests and
\* the string form 'Empty Webtest', and a Webtest with at least one request
\* never has that string form.
C23_EmptySentinel ==
    /\ webtest.status = "new" =>
          /\ webtest.filename = <<>>
          /\ webtest.requests = <<>>
          /\ Webtest__str__(webtest) = EmptyWebtest
    /\ webtest.requests # <<>> => Webtest__str__(webtest) # EmptyWebtest

\* the macro functions of Macro that the model's texts call
RegisteredMacros == {M_today, M_timestamp}

\* the last iteration of w invoked a macro
Invoked(w) == last[w].rule \in {"var_macro", "macro"}

\* C24: invoking a name that is not a registered macro function fails with
\* ValueError, the helper methods unpack, invoke and __init__ included, and
\* invoking a registered macro returns a string.
C24_HelpersNotMacros ==
    \A w \in Workers :
        Invoked(w) =>
            IF Classify(last[w].expression).m.macro_name \in RegisteredMacros
            THEN last[w].raised = ""
            ELSE last[w].raised = "ValueError"

\* w has gone through one pass of the loop of eval_expressions without an
\* exception
Expands(w) ==
    /\ pc[w] = "expand"
    /\ pc'[w] = "expand"
    /\ <<value[w], last[w]>> # <<value'[w], last'[w]>>

\* what follows the first block of s
AfterBlock(s) ==
    SubSeq(s, Len(re_expansion(s).before) + Len(re_expansion(s).expression) + 3,
           Len(s))

\* C25: expanding a block changes the block only: the text before it and all
\* the text after it, line breaks and later lines included, stay as they are
\* and in the same order.
C25_OnlyBlocksChange ==
    [][\A w \in Workers :
          Expands(w) =>
              value'[w] = re_expansion(value[w]).before \o last'[w].expanded
                             \o AfterBlock(value[w])]_vars

\* C26: after a parse without error the requests of the Webtest are one
\* Request for each Request element of the document, in the order of the
\* document, none of them None, and no request is open in the handler; also
\* when a Request element is inside another.
C26_OneRequestPerElement ==
    webtest.status = "parsed" =>
        /\ Len(webtest.requests) = Len(webtest.elements)
        /\ \A i \in 1..Len(webtest.requests) :
              /\ webtest.requests[i] # None
              /\ i <= Len(webtest.elements)
                    => /\ webtest.requests[i][1].url
                            = Request__init__(webtest.elements[i]).url
                       /\ webtest.requests[i][1].method
                            = Request__init__(webtest.elements[i]).method
        /\ webtest.handler.request = None

\* w is evaluating the pattern of a capture line
InPattern(w) == pc[w] = "expand" /\ ret[w] = "capture_search"

\* C27: while the pattern of a capture line {NAME = pattern} is expanded
\* its blocks are only looked up: no variable is changed, also when the
\* pattern has a block of the form of an assignment such as {X = 3}.
C27_PatternOnlyLooksUp ==
    [][\A w \in Workers : InPattern(w) => variables'[w] = variables[w]]_vars

LineMatched(w, j) == re_capture(cap[w].lines[j]).matched
LineName(w, j) == re_capture(cap[w].lines[j]).name

\* line j is the first line of the block that captures its NAME
Fresh(w, j) ==
    /\ LineMatched(w, j)
    /\ \A i \in 1..(j - 1) :
          ~(LineMatched(w, i) /\ LineName(w, i) = LineName(w, j))

\* the variable n is what it was when eval_capture was called
Untouched(w, n) ==
    IF n \in DOMAIN cap[w].store
    THEN n \in DOMAIN variables[w] /\ variables[w][n] = cap[w].store[n]
    ELSE n \notin DOMAIN variables[w]

V_ref == <<"<", "3", "1", ">">>

\* C29: eval_capture goes through the trimmed non-blank lines of the block
\* in order and ends at the first line that is malformed or finds no match:
\* every line before the current one has set its variable, no line from the
\* current one on has set its variable, a call that failed has not reached
\* the end of the lines, and a line may use the variable a line before it
\* has captured ({C = <S>(..)</S>} then {D = <{C}>} gives D = <31>).
C29_LinesInOrder ==
    \A w \in Workers :
        cap[w].status # "none" =>
            /\ cap[w].lines = captures(cap[w].capture)
            /\ \A j \in 1..Len(cap[w].lines) :
                  /\ j < cap[w].k
                        => /\ LineMatched(w, j)
                           /\ LineName(w, j) \in DOMAIN variables[w]
                  /\ (j >= cap[w].k /\ Fresh(w, j))
                        => Untouched(w, LineName(w, j))
            /\ cap[w].status = "returned" => cap[w].k = Len(cap[w].lines) + 1
            /\ cap[w].status \notin {"running", "returned"}
                  => cap[w].k <= Len(cap[w].lines)
            /\ cap[w].status = "CaptureFailed"
                  => ~Search(call[w].result, cap[w].body).matched
            /\ (/\ cap[w].status = "returned"
                /\ cap[w].lines = <<CL_group, CL_ref>>
                /\ cap[w].body = B_sid)
                  => variables[w][N_D] = V_ref

\* a call has ended with CaptureFailed at its first line, and the line
\* after it, which would match, has not set its variable
C29_Witness ==
    \E w \in Workers :
        /\ cap[w].status = "CaptureFailed"
        /\ cap[w].lines = <<CL_nomatch, CL_group>>
        /\ cap[w].body = B_sid
        /\ cap[w].k = 1
        /\ Untouched(w, N_C)

\* C28: a CorrelationRunner made while a before_set is configured runs the
\* before_set like a WebtestRunner does: its webtest_responses exist when
\* the first request of the before_set is run, and making it never fails
\* with an exception that does not come from the requests.
C28_CorrelationBeforeSet ==
    \A w \in Workers :
        /\ correlation[w].status = "request" => correlation[w].has_responses
        /\ correlation[w].raised \in ExecuteErrors \cup {""}

KnownElements == {"Request", "Header"} \cup ParameterElements \cup Containers

\* C30: a Header element, a parameter element, or character data that is
\* not empty inside a Description, StringHttpBody or Capture element, met
\* while no Request element is open, makes parse fail with MalformedXML; an
\* element of another name changes nothing in the handler, where ever it
\* is.
C30_OutsideRequestRejected ==
    [][Fed =>
          /\ (/\ webtest'.event.kind = "start"
              /\ webtest'.event.name \in {"Header"} \cup ParameterElements
              /\ ~InRequest(webtest.open))
                => webtest'.status = "MalformedXML"
          /\ (/\ webtest'.event.kind = "characters"
              /\ webtest'.event.data # <<>>
              /\ InContainer(webtest.open)
              /\ ~InRequest(webtest.open))
                => webtest'.status = "MalformedXML"
          /\ (/\ webtest'.event.kind \in {"start", "end"}
              /\ webtest'.event.name \notin KnownElements)
                => webtest'.handler = webtest.handler]_vars

\* C38: a second call of parse on a Webtest object leaves in its requests
\* the requests of the file parsed last only: not those of a file parsed
\* before, and a request left unfinished by a parse that failed is not kept
\* either.
C38_SecondParseFresh ==
    /\ webtest.status = "parsed"
          => Len(webtest.requests) <= Len(webtest.elements) - webtest.before
    /\ (webtest.status = "parsing" /\ ~InRequest(webtest.open))
          => webtest.handler.request = None

\* the Request objects the handler holds: the finished ones and the cursor
HandlerRequests(h) ==
    {h.requests[i] : i \in 1..Len(h.requests)} \cup {h.request}

NamesNotEmpty(h) ==
    \A q \in HandlerRequests(h) \ {None} :
        /\ \A i \in 1..Len(q[1].headers) : q[1].headers[i][1] # <<>>
        /\ \A i \in 1..Len(q[1].parameters) : q[1].parameters[i][1] # <<>>

\* the element with these attributes is recorded
Recorded(attrs) ==
    /\ Has(attrs, "Name")
    /\ Get(attrs, "Name", <<>>) # <<>>
    /\ Has(attrs, "Value")

\* the list after an element with these attributes
WithEntry(list, attrs) ==
    IF Recorded(attrs)
    THEN Append(list, <<Get(attrs, "Name", <<>>), Get(attrs, "Value", <<>>)>>)
    ELSE list

\* C35: every header and parameter entry of a Request has a name that is
\* not empty; a Header or parameter element inside a request adds its
\* (Name, Value) at the end of its list, duplicates too, if it has a Name
\* that is not empty and a Value attribute (an empty one as well), and adds
\* nothing and raises nothing otherwise.
C35_EntriesNamed ==
    [][/\ NamesNotEmpty(webtest'.handler)
       /\ (/\ Fed
           /\ webtest'.event.kind = "start"
           /\ webtest'.event.name \in {"Header"} \cup ParameterElements
           /\ webtest.handler.request # None)
             => /\ webtest'.status = "parsing"
                /\ webtest'.handler.request # None
                /\ webtest'.handler.request[1].headers =
                      IF webtest'.event.name = "Header"
                      THEN WithEntry(webtest.handler.request[1].headers,
                                     webtest'.event.attrs)
                      ELSE webtest.handler.request[1].headers
                /\ webtest'.handler.request[1].parameters =
                      IF webtest'.event.name \in ParameterElements
                      THEN WithEntry(webtest.handler.request[1].parameters,
                                     webtest'.event.attrs)
                      ELSE webtest.handler.request[1].parameters]_vars

\* a request holds the same header twice, and an element without a Name has
\* just been met without an error
C35_Witness ==
    /\ webtest.status = "parsing"
    /\ webtest.handler.request # None
    /\ webtest.handler.request[1].headers = << <<<<"h">>, <<"1">>>>, <<<<"h">>, <<"1">>>> >>
    /\ webtest.event.kind = "start"
    /\ ~Recorded(webtest.event.attrs)
    /\ webtest.event.name \in {"Header"} \cup ParameterElements

\* the request worker w is executing
Current(w) == Requests(run[w])[run[w].r]

PostWithBody(request) == request.method = "POST" /\ request.body # <<>>

\* w is expanding the value of a parameter of its request
InParameter(w) ==
    /\ pc[w] = "expand"
    /\ ret[w] = "execute_value"
    /\ Len(run[w].got) >= 1

\* the step sends the request of w
Sends(w) == run'[w].sent # run[w].sent /\ run'[w].sent # NoSent

\* C34: for a POST request with a body the parameters have no effect: the
\* expanded body is what is sent, and the expressions in the parameter
\* values assign no variable and raise nothing; a POST without a body and a
\* GET are sent with the expanded parameters.
C34_BodyReplacesParameters ==
    [][\A w \in Workers :
          /\ (InParameter(w) /\ PostWithBody(Current(w)))
                => /\ variables'[w] = variables[w]
                   /\ pc'[w] \in {"expand", "execute_value"}
          /\ Sends(w)
                => run'[w].sent.data =
                      IF PostWithBody(Current(w)) THEN call[w].result
                      ELSE Parameters(Current(w), run[w].got)]_vars

\* C36: no operation of a worker (its creation, with or without a
\* before_set, a call in any sequence, the expansion of expressions, a
\* capture, its end with an after_set) changes the class attributes: the
\* TestSets with their files and weights, the sequence, the think time, the
\* before_set and after_set and the requests of the files stay as
\* get_test_runner left them.
C36_RegistryReadOnly ==
    [][registry' = registry]_vars

\* a worker has ended and has run the requests of the after_set, after a
\* worker has assigned variables
C36_Witness ==
    \E w, v \in Workers :
        /\ run[w].deleted
        /\ run[w].status = "returned"
        /\ run[w].calls # <<>>
        /\ registry.after_set.truth
        /\ variables[v] # <<>>

\* the step ends the execution of a request of w
Executed(w) == pc[w] = "executed" /\ pc'[w] # "executed"

Correlating(w) ==
    /\ correlation[w].status = "request"
    /\ correlation[w].r <=
          Len(registry.webtest_requests[CorrelationFile(correlation[w])])
    /\ correlation'[w] # correlation[w]

\* the responses w has kept for the file it is at
Retained(w) ==
    IF CorrelationFile(correlation[w]) \in DOMAIN correlation[w].webtest_responses
    THEN correlation[w].webtest_responses[CorrelationFile(correlation[w])]
    ELSE <<>>

\* the kept response contains the name
WithName(name, t) == Contains(t[2], NameText(name))

\* the numbers of the kept responses that contain the name, in the order
\* they were kept
Matching(responses, name) ==
    LET Test(t) == WithName(name, t)
    IN  [k \in 1..Len(SelectSeq(responses, Test)) |->
            SelectSeq(responses, Test)[k][1]]

\* the parameter is one to look for
Considered(w, parameter) ==
    /\ NameText(parameter[1]) \notin DOMAIN variables[w]
    /\ parameter[2] # <<>>

C32_CaptureFailedCaught ==
    \A w \in Workers :
        correlation[w].status = "raised" => correlation[w].raised # "CaptureFailed"

\* C33: the class a get_test_runner call has returned keeps the
\* configuration of that call: a later call changes neither the TestSets,
\* nor the sequencing mode, nor the before_set and after_set that the
\* workers of the earlier class run with.
C33_ClassKeepsConfiguration ==
    [][registry # ClassAttributes =>
          /\ registry'.test_sets = registry.test_sets
          /\ registry'.sequence = registry.sequence
          /\ registry'.before_set = registry.before_set
          /\ registry'.after_set = registry.after_set]_vars

====
